---- MODULE Spec2Model ----
(***************************************************************************)
(* Opportunity handlers of sst-frontend.                                   *)
(*                                                                         *)
(*   get_opportunities   src/app.py            in-memory scan (database)   *)
(*   api_opportunities   src/app_render.py     in-memory scan (database,   *)
(*                                             mock data when it is down)  *)
(*   list_opportunities  src/public/server.py  SQL pushdown (sqlite)       *)
(*   get_opportunity, evaluate_opportunity, get_deliverables,              *)
(*   get_proposal_requirements, get_stats      src/app.py                  *)
(*   api_opportunity, api_evaluate_opportunity, api_stats                  *)
(*                                             src/app_render.py           *)
(*   register_user       src/public/server.py  transaction on sqlite       *)
(*   threads of app.run(threaded=True)         src/run_frontend.py         *)
(*                                                                         *)
(* Strings are sequences of code points, so that str.lower(), the `in`     *)
(* operator, string comparison, SQL LIKE and datetime.fromisoformat are    *)
(* computed, not assumed.                                                  *)
(*   32 ' '   37 '%'   49 '1'  50 '2'  65 'A'  66 'B'  97 'a'  98 'b'      *)
(***************************************************************************)
EXTENDS Integers, Sequences, FiniteSets, TLC

VARIABLES store, store_up, op, req, resp, threads, db

vars == <<store, store_up, op, req, resp, threads, db>>

----------------------------------------------------------------------------
(* Bounds *)

MaxRecords == 3
MaxTotal == 25
MaxPage == 4
MaxPerPage == 3
MaxFillers == 1
MaxStatsRecords == 16

----------------------------------------------------------------------------
(* Python / SQL primitives *)

Min(a, b) == IF a < b THEN a ELSE b
Max(a, b) == IF a > b THEN a ELSE b

\* str.lower(): ASCII letters, and U+0130 (304), the one character whose
\* lower case is two code points (105, 775)
LowerChar(c) == IF c \in 65..90 THEN c + 32 ELSE c
RECURSIVE Lower(_)
Lower(s) ==
    IF Len(s) = 0 THEN <<>>
    ELSE IF Len(s) = 1
    THEN (IF s[1] = 304 THEN <<105, 775>> ELSE <<LowerChar(s[1])>>)
    ELSE Lower(SubSeq(s, 1, Len(s) \div 2))
         \o Lower(SubSeq(s, Len(s) \div 2 + 1, Len(s)))

\* `needle in hay` for str
Contains(needle, hay) ==
    \E i \in 0..(Len(hay) - Len(needle)) :
        \A j \in 1..Len(needle) : hay[i + j] = needle[j]

\* a < b for str (code point order)
StrLess(a, b) ==
    \E i \in 1..Len(b) :
        /\ \A j \in 1..(i - 1) : j <= Len(a) /\ a[j] = b[j]
        /\ (i > Len(a) \/ a[i] < b[i])

\* truth value of a str
Truthy(s) == Len(s) > 0

\* dict.get(key, default)
Get(opp, key, default) == IF key \in DOMAIN opp THEN opp[key] ELSE default

\* a // b (floor division), b # 0
FloorDiv(a, b) == IF b > 0 THEN a \div b ELSE (0 - a) \div (0 - b)

\* seq[start:end]
SliceIndex(i, n) == IF i < 0 THEN Max(i + n, 0) ELSE Min(i, n)
\* mutant: the slice takes the element at `end` too
SliceThroughEnd(seq, start, end) ==
    LET lo == SliceIndex(start, Len(seq))
        hi == SliceIndex(end + 1, Len(seq))
    IN  IF lo < hi THEN SubSeq(seq, lo + 1, hi) ELSE <<>>

Slice(seq, start, end) ==
    LET lo == SliceIndex(start, Len(seq))
        hi == SliceIndex(end, Len(seq))
    IN  IF lo < hi THEN SubSeq(seq, lo + 1, hi) ELSE <<>>

----------------------------------------------------------------------------
(* Text literals of the code and of the record data *)

Empty == <<>>
Space == <<32>>                     \* ' '
Yes == <<89, 101, 115>>             \* 'Yes'
YesLower == <<121, 101, 115>>       \* 'yes'
YesUpper == <<89, 69, 83>>          \* 'YES'
No == <<78, 111>>                   \* 'No'
NoLower == <<110, 111>>             \* 'no'
Unknown == <<85, 110, 107, 110, 111, 119, 110>>   \* 'Unknown'
Es == <<101, 115>>                  \* 'es'
Desc == <<100, 101, 115, 99>>       \* 'desc'
DescUpper == <<68, 69, 83, 67>>     \* 'DESC'
Asc == <<97, 115, 99>>              \* 'asc'

----------------------------------------------------------------------------
(* Opportunity records.  A record is a mapping from field names to text;   *)
(* a field may be absent from the mapping or hold the empty text.          *)

RecA == [notice_id |-> <<65>>, title |-> <<65, 98>>, description |-> <<98, 97>>,
         full_parent_path_name |-> <<65, 98>>, naics_code |-> <<49, 50>>,
         posted_date |-> <<49>>, response_deadline |-> <<50>>, active |-> Yes,
         department |-> <<97>>, psc |-> <<49>>]

RecB == [notice_id |-> <<66>>, title |-> <<98>>, description |-> Empty,
         full_parent_path_name |-> <<66>>, naics_code |-> <<50>>,
         posted_date |-> <<50>>, response_deadline |-> <<49>>, active |-> No]

RecC == [notice_id |-> <<67>>, title |-> <<97>>,
         full_parent_path_name |-> <<97, 66>>, naics_code |-> Empty,
         posted_date |-> <<49>>, response_deadline |-> Empty, active |-> YesLower]

RecD == [notice_id |-> <<68>>, title |-> <<66>>, description |-> <<97, 32, 98>>,
         naics_code |-> <<50, 49>>, posted_date |-> Empty, psc |-> <<98>>]

RecordPool == {RecA, RecB, RecC, RecD}

\* notice_id is unique within a store
UniqueIds(s) == \A i, j \in 1..Len(s) : s[i].notice_id = s[j].notice_id => i = j

PoolStores ==
    {s \in UNION {[1..n -> RecordPool] : n \in 0..MaxRecords} : UniqueIds(s)}

\* the i-th record of a long store: ids 'A', 'B', ..., three posting dates,
\* alternating active flag
PagingRec(i) == [notice_id |-> <<64 + i>>, title |-> <<97 + (i % 2)>>,
                 posted_date |-> <<49 + (i % 3)>>,
                 active |-> IF i % 2 = 0 THEN Yes ELSE No]

PagingStores == {[i \in 1..n |-> PagingRec(i)] : n \in 0..MaxTotal}

\* MOCK_OPPORTUNITIES: ids 'D1', 'D2'; titles, agencies, NAICS codes and
\* descriptions abbreviated to their initials; the dates in full
\* ('2024-01-15T10:00:00Z', '2024-02-15T17:00:00Z', '2024-01-20T14:30:00Z',
\* '2024-02-20T16:00:00Z')
MOCK_OPPORTUNITIES ==
    << [notice_id |-> <<68, 49>>, title |-> <<73, 84>>,
        full_parent_path_name |-> <<68, 111, 68>>,
        posted_date |-> <<50, 48, 50, 52, 45, 48, 49, 45, 49, 53, 84, 49, 48, 58, 48, 48, 58, 48, 48, 90>>,
        response_deadline |-> <<50, 48, 50, 52, 45, 48, 50, 45, 49, 53, 84, 49, 55, 58, 48, 48, 58, 48, 48, 90>>,
        naics_code |-> <<53, 52>>, active |-> Yes, description |-> <<73, 84>>],
       [notice_id |-> <<68, 50>>, title |-> <<67, 83>>,
        full_parent_path_name |-> <<71, 83, 65>>,
        posted_date |-> <<50, 48, 50, 52, 45, 48, 49, 45, 50, 48, 84, 49, 52, 58, 51, 48, 58, 48, 48, 90>>,
        response_deadline |-> <<50, 48, 50, 52, 45, 48, 50, 45, 50, 48, 84, 49, 54, 58, 48, 48, 58, 48, 48, 90>>,
        naics_code |-> <<50, 51>>, active |-> Yes, description |-> <<67, 83>>] >>

----------------------------------------------------------------------------
(* In-memory query: get_opportunities (app.py), api_opportunities          *)
(* (app_render.py).  The two bodies are the same text.                     *)

\* `continue` conditions of the filter loop
SearchSkip(search, opp) ==
    /\ Truthy(search)
    /\ ~Contains(Lower(search),
                 Lower(Get(opp, "title", Empty) \o Space
                       \o Get(opp, "description", Empty)))

AgencySkip(agency, opp) ==
    /\ Truthy(agency)
    /\ ~Contains(agency, Get(opp, "full_parent_path_name", Empty))

NaicsSkip(naics, opp) ==
    /\ Truthy(naics)
    /\ ~Contains(naics, Get(opp, "naics_code", Empty))

\* mutant: the active filter tests containment, as the agency filter does
ActiveSkipSubstring(active, opp) ==
    /\ Truthy(active)
    /\ ~Contains(Lower(active), Lower(Get(opp, "active", Empty)))

ActiveSkip(active, opp) ==
    /\ Truthy(active)
    /\ Lower(active) # Lower(Get(opp, "active", Empty))

\* mutant: the NAICS check is skipped when an agency filter is given
AppendedAgencyShadowsNaics(opp, q) ==
    IF SearchSkip(q.search, opp) THEN FALSE
    ELSE IF AgencySkip(q.agency, opp) THEN FALSE
    ELSE IF ~Truthy(q.agency) /\ NaicsSkip(q.naics, opp) THEN FALSE
    ELSE IF ActiveSkip(q.active, opp) THEN FALSE
    ELSE TRUE

\* the loop body: a record is appended unless one of the checks continues
Appended(opp, q) ==
    IF SearchSkip(q.search, opp) THEN FALSE
    ELSE IF AgencySkip(q.agency, opp) THEN FALSE
    ELSE IF NaicsSkip(q.naics, opp) THEN FALSE
    ELSE IF ActiveSkip(q.active, opp) THEN FALSE
    ELSE TRUE

FilterOpportunities(opportunities, q) ==
    SelectSeq(opportunities, LAMBDA opp : Appended(opp, q))

\* mutant: a record without a value for the key sorts after every text
SortKeyMissingLast(x, sort_by) ==
    LET v == Get(x, sort_by, Empty) IN IF Truthy(v) THEN v ELSE <<1114111>>

\* key=lambda x: x.get(sort_by, '') or ''
SortKey(x, sort_by) ==
    LET v == Get(x, sort_by, Empty) IN IF Truthy(v) THEN v ELSE Empty

\* list.sort(key=..., reverse=...): stable in both directions
SortInsert(sorted, x, sort_by, reverse) ==
    LET Before(e) == IF reverse
                     THEN StrLess(SortKey(e, sort_by), SortKey(x, sort_by))
                     ELSE StrLess(SortKey(x, sort_by), SortKey(e, sort_by))
        later == {i \in 1..Len(sorted) : Before(sorted[i])}
        pos == IF later = {} THEN Len(sorted) + 1
               ELSE CHOOSE i \in later : \A j \in later : i <= j
    IN  SubSeq(sorted, 1, pos - 1) \o <<x>> \o SubSeq(sorted, pos, Len(sorted))

RECURSIVE ListSort(_, _, _)
ListSort(seq, sort_by, reverse) ==
    IF Len(seq) = 0 THEN <<>>
    ELSE SortInsert(ListSort(SubSeq(seq, 1, Len(seq) - 1), sort_by, reverse),
                    seq[Len(seq)], sort_by, reverse)

SortAllowList == {"posted_date", "response_deadline", "title"}

SortOpportunities(filtered, sort_by, sort_order) ==
    IF sort_by \in SortAllowList
    THEN ListSort(filtered, sort_by, sort_order = "desc")
    ELSE filtered

\* except Exception as e: return jsonify({'error': str(e)}), 500
ErrorResponse(message) == [status |-> 500, body |-> [error |-> message]]

\* mutant: the page number is taken as 0-based
WindowStartZeroBased(page, per_page) == page * per_page

WindowStart(page, per_page) == (page - 1) * per_page

\* mutant: a page runs one row into the next page
WindowEndOverlapping(start, per_page) == start + per_page + 1

WindowEnd(start, per_page) == start + per_page

\* mutant: the page count is rounded down
TotalPagesRoundedDown(total, per_page) == FloorDiv(total, per_page)

TotalPages(total, per_page) == FloorDiv(total + per_page - 1, per_page)

\* pagination and the JSON answer; per_page = 0 raises ZeroDivisionError
Paginate(sorted, page, per_page) ==
    LET total == Len(sorted)
        start == WindowStart(page, per_page)
        end == WindowEnd(start, per_page)
        paginated == Slice(sorted, start, end)
    IN  IF per_page = 0
        THEN ErrorResponse("integer division or modulo by zero")
        ELSE LET total_pages == TotalPages(total, per_page)
             IN  [status |-> 200,
                  body |-> [opportunities |-> paginated,
                            pagination |-> [page |-> page,
                                            per_page |-> per_page,
                                            total |-> total,
                                            total_pages |-> total_pages,
                                            has_next |-> page < total_pages,
                                            has_prev |-> page > 1]]]

\* the body of the try block from the filter loop on
QueryOpportunities(opportunities, q) ==
    Paginate(SortOpportunities(FilterOpportunities(opportunities, q),
                               q.sort_by, q.sort_order),
             q.page, q.per_page)

\* mutant: the sort acts on the list the store returned
GetOpportunitiesSortsStore(q) ==
    /\ op = "none"
    /\ op' = "get_opportunities"
    /\ req' = q
    /\ resp' = IF store_up THEN QueryOpportunities(store, q)
               ELSE ErrorResponse("database unavailable")
    /\ store' = IF store_up THEN SortOpportunities(store, q.sort_by, q.sort_order)
                ELSE store
    /\ UNCHANGED <<store_up, threads, db>>

\* app.py: db_manager.get_all_opportunities() raises when the database is down
GetOpportunities(q) ==
    /\ op = "none"
    /\ op' = "get_opportunities"
    /\ req' = q
    /\ resp' = IF store_up THEN QueryOpportunities(store, q)
               ELSE ErrorResponse("database unavailable")
    /\ UNCHANGED <<store, store_up, threads, db>>

\* app_render.py get_opportunities(): the database rows, or the mock data
RenderOpportunities == IF store_up THEN store ELSE MOCK_OPPORTUNITIES

ApiOpportunities(q) ==
    /\ op = "none"
    /\ op' = "api_opportunities"
    /\ req' = q
    /\ resp' = QueryOpportunities(RenderOpportunities, q)
    /\ UNCHANGED <<store, store_up, threads, db>>

----------------------------------------------------------------------------
(* SQL pushdown query: list_opportunities (public/server.py) on sqlite     *)

\* SQL NULL (no code point is negative)
NULL == <<-1>>

\* columns of the opportunities table read by the SELECT
Columns == {"notice_id", "title", "agency", "department", "naics", "psc",
            "notice_type", "posted_date", "response_due_date", "setaside"}

\* the record field a column holds (the aliases of the data model)
ColumnField(col) ==
    CASE col = "agency" -> "full_parent_path_name"
      [] col = "naics" -> "naics_code"
      [] col = "notice_type" -> "type"
      [] col = "response_due_date" -> "response_deadline"
      [] col = "setaside" -> "type_of_set_aside_description"
      [] OTHER -> col

\* the table row of a record; an absent field is NULL
TableRow(opp) == [col \in Columns |-> Get(opp, ColumnField(col), NULL)]

COALESCE(v, default) == IF v = NULL THEN default ELSE v

\* str.strip()
IsSpace(c) == c \in {9, 10, 11, 12, 13, 32}
Strip(s) ==
    LET solid == {i \in 1..Len(s) : ~IsSpace(s[i])}
    IN  IF solid = {} THEN <<>>
        ELSE SubSeq(s, CHOOSE i \in solid : \A j \in solid : i <= j,
                       CHOOSE i \in solid : \A j \in solid : i >= j)

\* sqlite LIKE: '%' any run, '_' any character, ASCII letters without case
RECURSIVE LIKE(_, _)
LIKE(text, pattern) ==
    IF Len(pattern) = 0 THEN Len(text) = 0
    ELSE IF Head(pattern) = 37
    THEN \E k \in 0..Len(text) :
            LIKE(SubSeq(text, k + 1, Len(text)), Tail(pattern))
    ELSE /\ Len(text) > 0
         /\ (Head(pattern) = 95 \/ LowerChar(Head(pattern)) = LowerChar(Head(text)))
         /\ LIKE(Tail(text), Tail(pattern))

SearchColumns == {"notice_id", "title", "agency", "department", "naics", "psc"}

\* the WHERE clause; empty when search is empty
Where(row, search) ==
    Truthy(search) =>
        \E col \in SearchColumns :
            LIKE(COALESCE(row[col], Empty), <<37>> \o search \o <<37>>)

\* col_map.get(str(order_col), 'posted_date')
col_map == [c \in {"1", "2", "3", "4", "5", "6", "7", "8", "9", "10"} |->
              CASE c = "1" -> "notice_id"
                [] c = "2" -> "title"
                [] c = "3" -> "agency"
                [] c = "4" -> "department"
                [] c = "5" -> "naics"
                [] c = "6" -> "psc"
                [] c = "7" -> "notice_type"
                [] c = "8" -> "posted_date"
                [] c = "9" -> "response_due_date"
                [] c = "10" -> "setaside"]

OrderBy(order_col) ==
    IF order_col \in DOMAIN col_map THEN col_map[order_col] ELSE "posted_date"

\* 'DESC' if order_dir.lower() == 'desc' else 'ASC'
OrderDir(order_dir) == IF Lower(order_dir) = Desc THEN "DESC" ELSE "ASC"

\* sqlite ordering of TEXT values: NULL first, then memcmp order
SqlLess(a, b) ==
    IF a = NULL THEN b # NULL
    ELSE IF b = NULL THEN FALSE
    ELSE StrLess(a, b)

\* ORDER BY col dir: any arrangement of the rows in which no row follows a
\* row it must precede; rows with equal keys come in an unspecified order
OrderedBy(rows, col, dir) ==
    \A i, j \in 1..Len(rows) :
        i < j => IF dir = "DESC" THEN ~SqlLess(rows[i][col], rows[j][col])
                 ELSE ~SqlLess(rows[j][col], rows[i][col])

Arrangements(rows) ==
    {[i \in 1..Len(rows) |-> rows[p[i]]] : p \in Permutations(1..Len(rows))}

OrderByResults(rows, col, dir) ==
    {a \in Arrangements(rows) : OrderedBy(a, col, dir)}

\* LIMIT length OFFSET start: a negative LIMIT is no limit, a negative
\* OFFSET is 0
LimitOffset(rows, length, start) ==
    LET skipped == SubSeq(rows, Max(start, 0) + 1, Len(rows))
    IN  IF length < 0 THEN skipped
        ELSE SubSeq(skipped, 1, Min(length, Len(skipped)))

\* the rows of the opportunities table, in rowid order
Table == [i \in 1..Len(store) |-> TableRow(store[i])]

Matching(search) == SelectSeq(Table, LAMBDA row : Where(row, search))

FailedToLoad ==
    [status |-> 500,
     body |-> [data |-> <<>>, recordsTotal |-> 0, recordsFiltered |-> 0,
               error |-> "Failed to load data"]]

ListOpportunities(r) ==
    /\ op = "none"
    /\ op' = "list_opportunities"
    /\ req' = r
    /\ IF store_up
       THEN LET search == Strip(r.search)
                total == Len(Matching(search))
            IN  \E sorted \in OrderByResults(Matching(search),
                                             OrderBy(r.order_col),
                                             OrderDir(r.order_dir)) :
                    resp' = [status |-> 200,
                             body |-> [data |-> LimitOffset(sorted, r.length, r.start),
                                       recordsTotal |-> total,
                                       recordsFiltered |-> total]]
       ELSE resp' = FailedToLoad
    /\ UNCHANGED <<store, store_up, threads, db>>

----------------------------------------------------------------------------
(* Requests *)

\* request.args.get(..., default) of get_opportunities / api_opportunities
DefaultQuery ==
    [page |-> 1, per_page |-> 20, search |-> Empty, agency |-> Empty,
     naics |-> Empty, active |-> Empty, sort_by |-> "posted_date",
     sort_order |-> "desc"]

Searches == {Empty, <<97>>, <<66>>, <<98, 32, 98>>}        \* '', 'a', 'B', 'b b'
Agencies == {Empty, <<65, 98>>, <<97, 98>>, <<66>>}        \* '', 'Ab', 'ab', 'B'
Naicses == {Empty, <<50>>, <<49, 50>>}                     \* '', '2', '12'
Actives == {Empty, Yes, YesUpper, Es}
SortFields == {"posted_date", "response_deadline", "title", "solicitation_number"}
SortOrders == {"asc", "desc"}
Pages == -1..MaxPage
PerPages == -1..MaxPerPage

FilterQueries ==
    {[DefaultQuery EXCEPT !.search = s, !.agency = a, !.naics = n, !.active = c] :
        s \in Searches, a \in Agencies, n \in Naicses, c \in Actives}

PageQueries ==
    {[DefaultQuery EXCEPT !.page = p, !.per_page = pp, !.active = c,
                          !.sort_order = o] :
        p \in Pages, pp \in PerPages, c \in {Empty, YesUpper}, o \in SortOrders}

SortQueries ==
    {[DefaultQuery EXCEPT !.sort_by = f, !.sort_order = o, !.active = c] :
        f \in SortFields, o \in SortOrders, c \in {Empty, YesUpper}}

Queries == FilterQueries \cup PageQueries \cup SortQueries

\* the 25-record scenario needs per_page = 10
PagingQueries ==
    {[DefaultQuery EXCEPT !.page = p, !.per_page = pp, !.active = c,
                          !.sort_order = o] :
        p \in Pages, pp \in PerPages \cup {10}, c \in {Empty, YesUpper},
        o \in SortOrders}

\* request.args.get(..., default) of list_opportunities
DefaultRequest ==
    [start |-> 0, length |-> 25, search |-> Empty, order_col |-> "8",
     order_dir |-> Desc]

\* '', 'a', 'B', 'b b', ' a '
ListSearches == Searches \cup {<<32, 97, 32>>}
OrderCols == {"8", "2", "9", "x"}
OrderDirs == {Desc, DescUpper, Asc}

WindowRequests ==
    {[DefaultRequest EXCEPT !.start = s, !.length = l, !.order_dir = d] :
        s \in -1..MaxPage, l \in PerPages, d \in {Desc, Asc}}

OrderRequests ==
    {[DefaultRequest EXCEPT !.search = s, !.order_col = c, !.order_dir = d] :
        s \in ListSearches, c \in OrderCols, d \in OrderDirs}

ListRequests == WindowRequests \cup OrderRequests

----------------------------------------------------------------------------
(* Specifications *)

NoResponse == [status |-> 0, body |-> <<>>]

\* the answer is sent and the request context dropped; nothing of a request
\* outlives it
Respond ==
    /\ op # "none"
    /\ op' = "none"
    /\ req' = <<>>
    /\ resp' = NoResponse
    /\ UNCHANGED <<store, store_up, threads, db>>

Init ==
    /\ store \in PoolStores
    /\ store_up \in BOOLEAN
    /\ op = "none"
    /\ req = <<>>
    /\ resp = NoResponse
    /\ threads = <<>>
    /\ db = <<>>

Next ==
    \/ \E q \in Queries : GetOpportunities(q)
    \/ \E q \in Queries : ApiOpportunities(q)
    \/ \E r \in ListRequests : ListOpportunities(r)
    \/ Respond

Spec == Init /\ [][Next]_vars

\* long stores, pagination requests
InitPaging ==
    /\ store \in PagingStores
    /\ store_up \in BOOLEAN
    /\ op = "none"
    /\ req = <<>>
    /\ resp = NoResponse
    /\ threads = <<>>
    /\ db = <<>>

NextPaging ==
    \/ \E q \in PagingQueries : GetOpportunities(q)
    \/ \E q \in PagingQueries : ApiOpportunities(q)
    \/ Respond

SpecPaging == InitPaging /\ [][NextPaging]_vars

----------------------------------------------------------------------------
(* Dates and the clock: datetime.fromisoformat, datetime.now, timedelta     *)

\* None: the value of dict.get(key) for an absent key, and of a NULL column
None == NULL

IsDigit(c) == c \in 48..57
AllDigits(s) == \A i \in 1..Len(s) : IsDigit(s[i])

RECURSIVE Number(_)
Number(s) ==
    IF Len(s) = 0 THEN 0
    ELSE Number(SubSeq(s, 1, Len(s) - 1)) * 10 + (s[Len(s)] - 48)

IsLeap(y) == y % 4 = 0 /\ (y % 100 # 0 \/ y % 400 = 0)

DaysInMonth(y, m) ==
    IF m = 2 THEN (IF IsLeap(y) THEN 29 ELSE 28)
    ELSE IF m \in {4, 6, 9, 11} THEN 30 ELSE 31

RECURSIVE DaysBeforeMonth(_, _)
DaysBeforeMonth(y, m) ==
    IF m = 1 THEN 0 ELSE DaysBeforeMonth(y, m - 1) + DaysInMonth(y, m - 1)

DaysBeforeYear(y) ==
    365 * (y - 1) + ((y - 1) \div 4) - ((y - 1) \div 100) + ((y - 1) \div 400)

\* date.toordinal()
Ordinal(y, m, d) == DaysBeforeYear(y) + DaysBeforeMonth(y, m) + d

\* a naive datetime: the day and the second of the day
DateTime(y, m, d, hh, mm, ss) ==
    [valid |-> TRUE, aware |-> FALSE, day |-> Ordinal(y, m, d),
     sec |-> hh * 3600 + mm * 60 + ss]

\* str.replace('Z', '+00:00')
RECURSIVE ReplaceZ(_)
ReplaceZ(s) ==
    IF Len(s) = 0 THEN <<>>
    ELSE ReplaceZ(SubSeq(s, 1, Len(s) - 1))
         \o (IF s[Len(s)] = 90 THEN <<43, 48, 48, 58, 48, 48>> ELSE <<s[Len(s)]>>)

\* ValueError of fromisoformat
InvalidFormat == [valid |-> FALSE]

\* datetime.fromisoformat on the texts YYYY-MM-DD, YYYY-MM-DD?HH:MM:SS and
\* YYYY-MM-DD?HH:MM:SS+HH:MM (? any character); an offset makes the value
\* aware, held here in UTC.  Every other text of the model is rejected by
\* fromisoformat too.
FromIsoFormat(s) ==
    LET n == Len(s)
        year == Number(SubSeq(s, 1, 4))
        month == Number(SubSeq(s, 6, 7))
        dom == Number(SubSeq(s, 9, 10))
        hh == Number(SubSeq(s, 12, 13))
        mm == Number(SubSeq(s, 15, 16))
        ss == Number(SubSeq(s, 18, 19))
        oh == Number(SubSeq(s, 21, 22))
        om == Number(SubSeq(s, 24, 25))
        dateOk == /\ n >= 10
                  /\ AllDigits(SubSeq(s, 1, 4)) /\ s[5] = 45
                  /\ AllDigits(SubSeq(s, 6, 7)) /\ s[8] = 45
                  /\ AllDigits(SubSeq(s, 9, 10))
                  /\ year >= 1 /\ month \in 1..12
                  /\ dom \in 1..DaysInMonth(year, month)
        timeOk == /\ n >= 19
                  /\ AllDigits(SubSeq(s, 12, 13)) /\ s[14] = 58
                  /\ AllDigits(SubSeq(s, 15, 16)) /\ s[17] = 58
                  /\ AllDigits(SubSeq(s, 18, 19))
                  /\ hh < 24 /\ mm < 60 /\ ss < 60
        offsetOk == /\ n = 25
                    /\ s[20] \in {43, 45}
                    /\ AllDigits(SubSeq(s, 21, 22)) /\ s[23] = 58
                    /\ AllDigits(SubSeq(s, 24, 25))
                    /\ oh < 24 /\ om < 60
        offset == (IF s[20] = 45 THEN -1 ELSE 1) * (oh * 3600 + om * 60)
    IN  IF n = 10 /\ dateOk THEN DateTime(year, month, dom, 0, 0, 0)
        ELSE IF n = 19 /\ dateOk /\ timeOk
        THEN DateTime(year, month, dom, hh, mm, ss)
        ELSE IF dateOk /\ timeOk /\ offsetOk
        THEN [DateTime(year, month, dom, hh, mm, ss) EXCEPT
                 !.aware = TRUE, !.sec = @ - offset]
        ELSE InvalidFormat

\* (a - b).days for two naive or two aware datetimes
Days(a, b) == FloorDiv((a.day - b.day) * 86400 + a.sec - b.sec, 86400)

\* a - b and a >= b raise TypeError when one is aware and the other naive
Comparable(a, b) == a.aware = b.aware

AtLeast(a, b) == (a.day - b.day) * 86400 + a.sec - b.sec >= 0

\* a - timedelta(days=n)
MinusDays(a, n) == [a EXCEPT !.day = @ - n]

----------------------------------------------------------------------------
(* Evaluation: evaluate_opportunity, generate_evaluation_recommendations    *)
(* (app.py) and their copies in app_render.py.  A recommendation is a tag   *)
(* with the value its text is formatted from.                               *)

SmallBusiness == <<115, 109, 97, 108, 108, 32, 98, 117, 115, 105, 110, 101, 115, 115>>
Women == <<119, 111, 109, 101, 110>>
Veteran == <<118, 101, 116, 101, 114, 97, 110>>

\* "Check response deadline": the try block and its bare except
DeadlineRecommendations(opportunity, now) ==
    LET response_deadline == Get(opportunity, "response_deadline", None)
        deadline_date == FromIsoFormat(ReplaceZ(response_deadline))
        days_until_deadline == Days(deadline_date, now)
    IN  IF response_deadline = None \/ ~Truthy(response_deadline) THEN <<>>
        ELSE IF ~deadline_date.valid \/ ~Comparable(deadline_date, now)
        THEN << [tag |-> "format unclear"] >>
        ELSE IF days_until_deadline < 7
        THEN << [tag |-> "urgent", days |-> days_until_deadline] >>
        ELSE IF days_until_deadline < 14
        THEN << [tag |-> "plan accordingly", days |-> days_until_deadline] >>
        ELSE << [tag |-> "good planning time", days |-> days_until_deadline] >>

\* "Check set-aside type"
SetAsideRecommendations(opportunity) ==
    LET set_aside == Get(opportunity, "type_of_set_aside_description", Empty)
    IN  IF ~Truthy(set_aside) THEN <<>>
        ELSE IF Contains(SmallBusiness, Lower(set_aside))
        THEN << [tag |-> "small business"] >>
        ELSE IF Contains(Women, Lower(set_aside))
        THEN << [tag |-> "women-owned"] >>
        ELSE IF Contains(Veteran, Lower(set_aside))
        THEN << [tag |-> "veteran-owned"] >>
        ELSE <<>>

\* "Check NAICS code"
NaicsRecommendations(opportunity) ==
    LET naics == Get(opportunity, "naics_code", Empty)
    IN  IF Truthy(naics) THEN << [tag |-> "naics", code |-> naics] >> ELSE <<>>

\* "Check if active"
ActiveRecommendations(opportunity) ==
    LET active == Get(opportunity, "active", Empty)
    IN  IF Truthy(active) /\ Lower(active) = YesLower
        THEN << [tag |-> "active"] >>
        ELSE IF Truthy(active) /\ Lower(active) = NoLower
        THEN << [tag |-> "inactive"] >>
        ELSE <<>>

\* app.py: deadline, set-aside, NAICS, active
generate_evaluation_recommendations(opportunity, now) ==
    DeadlineRecommendations(opportunity, now)
    \o SetAsideRecommendations(opportunity)
    \o NaicsRecommendations(opportunity)
    \o ActiveRecommendations(opportunity)

\* app_render.py: deadline, active, NAICS; no set-aside check
render_generate_evaluation_recommendations(opportunity, now) ==
    DeadlineRecommendations(opportunity, now)
    \o ActiveRecommendations(opportunity)
    \o NaicsRecommendations(opportunity)

Ellipsis == <<46, 46, 46>>          \* '...'

DescriptionLimit == 500

\* mutant: a description of exactly 500 characters is cut too
EvaluationDescriptionAtLimit(opportunity) ==
    LET description == Get(opportunity, "description", None)
    IN  IF description # None /\ Truthy(description)
           /\ Len(Get(opportunity, "description", Empty)) >= DescriptionLimit
        THEN Slice(Get(opportunity, "description", Empty), 0, DescriptionLimit)
             \o Ellipsis
        ELSE description

\* description[:500] + '...' if description and len(description) > 500
\* else description
EvaluationDescription(opportunity) ==
    LET description == Get(opportunity, "description", None)
    IN  IF description # None /\ Truthy(description)
           /\ Len(Get(opportunity, "description", Empty)) > DescriptionLimit
        THEN Slice(Get(opportunity, "description", Empty), 0, DescriptionLimit)
             \o Ellipsis
        ELSE description

\* the evaluation dict
Evaluation(opportunity, recommendations) ==
    [notice_id |-> Get(opportunity, "notice_id", None),
     title |-> Get(opportunity, "title", None),
     agency |-> Get(opportunity, "full_parent_path_name", None),
     posted_date |-> Get(opportunity, "posted_date", None),
     response_deadline |-> Get(opportunity, "response_deadline", None),
     type |-> Get(opportunity, "type", None),
     set_aside_type |-> Get(opportunity, "type_of_set_aside_description", None),
     naics_code |-> Get(opportunity, "naics_code", None),
     active |-> Get(opportunity, "active", None),
     description |-> EvaluationDescription(opportunity),
     point_of_contact |-> Get(opportunity, "point_of_contact", None),
     ui_link |-> Get(opportunity, "ui_link", None),
     recommendations |-> recommendations]

\* mutant: an id that no record carries finds the first record
FoundOrFirst(opportunities, notice_id) ==
    IF \E i \in 1..Len(opportunities) : opportunities[i].notice_id = notice_id
    THEN SelectSeq(opportunities, LAMBDA opp : opp.notice_id = notice_id)
    ELSE SubSeq(opportunities, 1, 1)

\* db_manager.get_opportunity(notice_id) and the loop over the mock data:
\* the records with that id (at most one, notice_id being unique)
Found(opportunities, notice_id) ==
    SelectSeq(opportunities, LAMBDA opp : opp.notice_id = notice_id)

NotFound == [status |-> 404, body |-> [error |-> "Opportunity not found"]]

\* app_render.py get_opportunity(): the database, or the mock data
RenderFound(notice_id) ==
    Found(IF store_up THEN store ELSE MOCK_OPPORTUNITIES, notice_id)

\* GET /api/opportunities/<notice_id>, app.py
GetOpportunity(notice_id) ==
    /\ op = "none"
    /\ op' = "get_opportunity"
    /\ req' = [notice_id |-> notice_id]
    /\ resp' = IF ~store_up THEN ErrorResponse("database unavailable")
               ELSE IF Found(store, notice_id) = <<>> THEN NotFound
               ELSE [status |-> 200, body |-> Found(store, notice_id)[1]]
    /\ UNCHANGED <<store, store_up, threads, db>>

\* GET /api/opportunities/<notice_id>, app_render.py
ApiOpportunity(notice_id) ==
    /\ op = "none"
    /\ op' = "api_opportunity"
    /\ req' = [notice_id |-> notice_id]
    /\ resp' = IF RenderFound(notice_id) = <<>> THEN NotFound
               ELSE [status |-> 200, body |-> RenderFound(notice_id)[1]]
    /\ UNCHANGED <<store, store_up, threads, db>>

\* POST /api/opportunities/<notice_id>/evaluate, app.py
EvaluateOpportunity(notice_id, now) ==
    /\ op = "none"
    /\ op' = "evaluate_opportunity"
    /\ req' = [notice_id |-> notice_id, now |-> now]
    /\ resp' = IF ~store_up THEN ErrorResponse("database unavailable")
               ELSE IF Found(store, notice_id) = <<>> THEN NotFound
               ELSE LET opportunity == Found(store, notice_id)[1]
                    IN  [status |-> 200,
                         body |-> Evaluation(opportunity,
                                     generate_evaluation_recommendations(
                                         opportunity, now))]
    /\ UNCHANGED <<store, store_up, threads, db>>

\* POST /api/opportunities/<notice_id>/evaluate, app_render.py
ApiEvaluateOpportunity(notice_id, now) ==
    /\ op = "none"
    /\ op' = "api_evaluate_opportunity"
    /\ req' = [notice_id |-> notice_id, now |-> now]
    /\ resp' = IF RenderFound(notice_id) = <<>> THEN NotFound
               ELSE LET opportunity == RenderFound(notice_id)[1]
                    IN  [status |-> 200,
                         body |-> Evaluation(opportunity,
                                     render_generate_evaluation_recommendations(
                                         opportunity, now))]
    /\ UNCHANGED <<store, store_up, threads, db>>

----------------------------------------------------------------------------
(* Text extraction: extract_deliverables_from_description,                  *)
(* extract_proposal_requirements_from_description (app.py)                  *)

deliverable_keywords ==
    << <<100, 101, 108, 105, 118, 101, 114, 97, 98, 108, 101>>,   \* deliverable
       <<100, 101, 108, 105, 118, 101, 114, 97, 98, 108, 101, 115>>,   \* deliverables
       <<114, 101, 112, 111, 114, 116>>,   \* report
       <<114, 101, 112, 111, 114, 116, 115>>,   \* reports
       <<100, 111, 99, 117, 109, 101, 110, 116>>,   \* document
       <<100, 111, 99, 117, 109, 101, 110, 116, 115>>,   \* documents
       <<97, 110, 97, 108, 121, 115, 105, 115>>,   \* analysis
       <<97, 110, 97, 108, 121, 115, 101, 115>>,   \* analyses
       <<115, 116, 117, 100, 121>>,   \* study
       <<115, 116, 117, 100, 105, 101, 115>>,   \* studies
       <<97, 115, 115, 101, 115, 115, 109, 101, 110, 116>>,   \* assessment
       <<97, 115, 115, 101, 115, 115, 109, 101, 110, 116, 115>>,   \* assessments
       <<112, 108, 97, 110>>,   \* plan
       <<112, 108, 97, 110, 115>>,   \* plans
       <<115, 116, 114, 97, 116, 101, 103, 121>>,   \* strategy
       <<115, 116, 114, 97, 116, 101, 103, 105, 101, 115>>,   \* strategies
       <<112, 114, 111, 112, 111, 115, 97, 108>>,   \* proposal
       <<112, 114, 111, 112, 111, 115, 97, 108, 115>>,   \* proposals
       <<112, 114, 101, 115, 101, 110, 116, 97, 116, 105, 111, 110>>,   \* presentation
       <<112, 114, 101, 115, 101, 110, 116, 97, 116, 105, 111, 110, 115>>,   \* presentations
       <<116, 114, 97, 105, 110, 105, 110, 103>>,   \* training
       <<119, 111, 114, 107, 115, 104, 111, 112>>,   \* workshop
       <<119, 111, 114, 107, 115, 104, 111, 112, 115>>,   \* workshops
       <<115, 111, 102, 116, 119, 97, 114, 101>>,   \* software
       <<97, 112, 112, 108, 105, 99, 97, 116, 105, 111, 110>>,   \* application
       <<97, 112, 112, 108, 105, 99, 97, 116, 105, 111, 110, 115>>,   \* applications
       <<115, 121, 115, 116, 101, 109>>,   \* system
       <<115, 121, 115, 116, 101, 109, 115>>,   \* systems
       <<100, 97, 116, 97, 98, 97, 115, 101>>,   \* database
       <<100, 97, 116, 97, 98, 97, 115, 101, 115>>,   \* databases
       <<119, 101, 98, 115, 105, 116, 101>>,   \* website
       <<119, 101, 98, 115, 105, 116, 101, 115>>,   \* websites
       <<112, 108, 97, 116, 102, 111, 114, 109>>,   \* platform
       <<112, 108, 97, 116, 102, 111, 114, 109, 115>> >>   \* platforms

requirement_keywords ==
    << <<114, 101, 113, 117, 105, 114, 101, 109, 101, 110, 116>>,   \* requirement
       <<114, 101, 113, 117, 105, 114, 101, 109, 101, 110, 116, 115>>,   \* requirements
       <<109, 117, 115, 116>>,   \* must
       <<115, 104, 97, 108, 108>>,   \* shall
       <<115, 104, 111, 117, 108, 100>>,   \* should
       <<110, 101, 101, 100>>,   \* need
       <<110, 101, 101, 100, 115>>,   \* needs
       <<101, 120, 112, 101, 114, 105, 101, 110, 99, 101>>,   \* experience
       <<113, 117, 97, 108, 105, 102, 105, 99, 97, 116, 105, 111, 110>>,   \* qualification
       <<113, 117, 97, 108, 105, 102, 105, 99, 97, 116, 105, 111, 110, 115>>,   \* qualifications
       <<99, 101, 114, 116, 105, 102, 105, 99, 97, 116, 105, 111, 110>>,   \* certification
       <<99, 101, 114, 116, 105, 102, 105, 99, 97, 116, 105, 111, 110, 115>>,   \* certifications
       <<108, 105, 99, 101, 110, 115, 101>>,   \* license
       <<108, 105, 99, 101, 110, 115, 101, 115>>,   \* licenses
       <<99, 108, 101, 97, 114, 97, 110, 99, 101>>,   \* clearance
       <<99, 108, 101, 97, 114, 97, 110, 99, 101, 115>>,   \* clearances
       <<115, 101, 99, 117, 114, 105, 116, 121>>,   \* security
       <<99, 111, 109, 112, 108, 105, 97, 110, 99, 101>>,   \* compliance
       <<116, 105, 109, 101, 108, 105, 110, 101>>,   \* timeline
       <<115, 99, 104, 101, 100, 117, 108, 101>>,   \* schedule
       <<100, 101, 97, 100, 108, 105, 110, 101>>,   \* deadline
       <<100, 101, 97, 100, 108, 105, 110, 101, 115>>,   \* deadlines
       <<109, 105, 108, 101, 115, 116, 111, 110, 101>>,   \* milestone
       <<109, 105, 108, 101, 115, 116, 111, 110, 101, 115>>,   \* milestones
       <<98, 117, 100, 103, 101, 116>>,   \* budget
       <<99, 111, 115, 116>>,   \* cost
       <<112, 114, 105, 99, 105, 110, 103>>,   \* pricing
       <<112, 114, 105, 99, 101>>,   \* price
       <<102, 117, 110, 100, 105, 110, 103>>,   \* funding
       <<112, 97, 121, 109, 101, 110, 116>>,   \* payment
       <<116, 101, 114, 109, 115>>,   \* terms
       <<115, 99, 111, 112, 101>>,   \* scope
       <<119, 111, 114, 107>>,   \* work
       <<116, 97, 115, 107, 115>>,   \* tasks
       <<97, 99, 116, 105, 118, 105, 116, 105, 101, 115>>,   \* activities
       <<114, 101, 115, 112, 111, 110, 115, 105, 98, 105, 108, 105, 116, 105, 101, 115>>,   \* responsibilities
       <<100, 117, 116, 105, 101, 115>> >>   \* duties

DeliverableWindow == 50
DeliverableLimit == 10
RequirementWindow == 100
RequirementLimit == 15

\* str.find(keyword) for a keyword that occurs: its first 0-based position
Find(text, keyword) ==
    CHOOSE i \in 0..(Len(text) - Len(keyword)) :
        /\ SubSeq(text, i + 1, i + Len(keyword)) = keyword
        /\ \A k \in 0..(i - 1) : SubSeq(text, k + 1, k + Len(keyword)) # keyword

\* the context of one keyword: positions found in the lowered text, cut
\* from the description itself
Context(description, description_lower, keyword, window) ==
    LET start == Find(description_lower, keyword)
        context_start == Max(0, start - window)
        context_end == Min(Len(description), start + Len(keyword) + window)
    IN  Strip(Slice(description, context_start, context_end))

\* mutant: a context is put in front of the contexts found so far
RECURSIVE KeywordContextsNewestFirst(_, _, _, _)
KeywordContextsNewestFirst(description, description_lower, keywords, window) ==
    IF Len(keywords) = 0 THEN <<>>
    ELSE (IF Contains(keywords[Len(keywords)], description_lower)
          THEN << Context(description, description_lower,
                          keywords[Len(keywords)], window) >>
          ELSE <<>>)
         \o KeywordContextsNewestFirst(description, description_lower,
                         SubSeq(keywords, 1, Len(keywords) - 1), window)

\* the loop over the keyword list
RECURSIVE KeywordContexts(_, _, _, _)
KeywordContexts(description, description_lower, keywords, window) ==
    IF Len(keywords) = 0 THEN <<>>
    ELSE KeywordContexts(description, description_lower,
                         SubSeq(keywords, 1, Len(keywords) - 1), window)
         \o (IF Contains(keywords[Len(keywords)], description_lower)
             THEN << Context(description, description_lower,
                             keywords[Len(keywords)], window) >>
             ELSE <<>>)

extract_deliverables_from_description(description) ==
    IF ~Truthy(description) THEN <<>>
    ELSE Slice(KeywordContexts(description, Lower(description),
                               deliverable_keywords, DeliverableWindow),
               0, DeliverableLimit)

extract_proposal_requirements_from_description(description) ==
    IF ~Truthy(description) THEN <<>>
    ELSE Slice(KeywordContexts(description, Lower(description),
                               requirement_keywords, RequirementWindow),
               0, RequirementLimit)

\* the deliverables dict
Deliverables(opportunity) ==
    [notice_id |-> Get(opportunity, "notice_id", None),
     title |-> Get(opportunity, "title", None),
     solicitation_number |->
         Get(opportunity, "solicitation_number", None),
     agency |->
         Get(opportunity, "full_parent_path_name", None),
     response_deadline |->
         Get(opportunity, "response_deadline", None),
     type |-> Get(opportunity, "type", None),
     description |->
         Get(opportunity, "description", Empty),
     requirements |->
         extract_deliverables_from_description(
             Get(opportunity, "description", Empty)),
     ui_link |-> Get(opportunity, "ui_link", None)]

\* POST /api/opportunities/<notice_id>/deliverables
GetDeliverables(notice_id) ==
    /\ op = "none"
    /\ op' = "get_deliverables"
    /\ req' = [notice_id |-> notice_id]
    /\ resp' = IF ~store_up THEN ErrorResponse("database unavailable")
               ELSE IF Found(store, notice_id) = <<>> THEN NotFound
               ELSE [status |-> 200,
                     body |-> Deliverables(Found(store, notice_id)[1])]
    /\ UNCHANGED <<store, store_up, threads, db>>

\* the proposal_requirements dict
ProposalRequirements(opportunity) ==
    [notice_id |-> Get(opportunity, "notice_id", None),
     title |-> Get(opportunity, "title", None),
     solicitation_number |->
         Get(opportunity, "solicitation_number", None),
     agency |->
         Get(opportunity, "full_parent_path_name", None),
     response_deadline |->
         Get(opportunity, "response_deadline", None),
     type |-> Get(opportunity, "type", None),
     set_aside_type |->
         Get(opportunity,
             "type_of_set_aside_description", None),
     naics_code |-> Get(opportunity, "naics_code", None),
     description |->
         Get(opportunity, "description", Empty),
     requirements |->
         extract_proposal_requirements_from_description(
             Get(opportunity, "description", Empty)),
     point_of_contact |->
         Get(opportunity, "point_of_contact", None),
     ui_link |-> Get(opportunity, "ui_link", None)]

\* POST /api/opportunities/<notice_id>/proposal
GetProposalRequirements(notice_id) ==
    /\ op = "none"
    /\ op' = "get_proposal_requirements"
    /\ req' = [notice_id |-> notice_id]
    /\ resp' = IF ~store_up THEN ErrorResponse("database unavailable")
               ELSE IF Found(store, notice_id) = <<>> THEN NotFound
               ELSE [status |-> 200,
                     body |-> ProposalRequirements(Found(store, notice_id)[1])]
    /\ UNCHANGED <<store, store_up, threads, db>>

----------------------------------------------------------------------------
(* Statistics: get_stats (app.py), api_stats (app_render.py).  A dict is    *)
(* the sequence of its (key, count) items in insertion order.               *)

\* counts[key] = counts.get(key, 0) + 1
Increment(counts, key) ==
    IF \E i \in 1..Len(counts) : counts[i][1] = key
    THEN [i \in 1..Len(counts) |->
             IF counts[i][1] = key THEN <<key, counts[i][2] + 1>> ELSE counts[i]]
    ELSE Append(counts, <<key, 1>>)

\* the loop filling agencies
RECURSIVE AgencyCounts(_)
AgencyCounts(opportunities) ==
    IF Len(opportunities) = 0 THEN <<>>
    ELSE Increment(AgencyCounts(SubSeq(opportunities, 1, Len(opportunities) - 1)),
                   Get(opportunities[Len(opportunities)],
                       "full_parent_path_name", Unknown))

\* the loop filling naics_codes
RECURSIVE NaicsCounts(_)
NaicsCounts(opportunities) ==
    IF Len(opportunities) = 0 THEN <<>>
    ELSE LET counts == NaicsCounts(SubSeq(opportunities, 1, Len(opportunities) - 1))
             naics == Get(opportunities[Len(opportunities)], "naics_code", Unknown)
         IN  IF Truthy(naics) THEN Increment(counts, naics) ELSE counts

\* mutant: an item is put before the items that count the same
CountInsertBeforeTies(sorted, item) ==
    LET before == SelectSeq(sorted, LAMBDA x : x[2] > item[2])
        after == SelectSeq(sorted, LAMBDA x : x[2] <= item[2])
    IN  before \o <<item>> \o after

\* sorted(..., key=count, reverse=True): a stable sort puts an item after
\* the items that precede it and count at least as much
CountInsert(sorted, item) ==
    LET before == SelectSeq(sorted, LAMBDA x : x[2] >= item[2])
        after == SelectSeq(sorted, LAMBDA x : x[2] < item[2])
    IN  before \o <<item>> \o after

RECURSIVE SortedByCount(_)
SortedByCount(items) ==
    IF Len(items) = 0 THEN <<>>
    ELSE CountInsert(SortedByCount(SubSeq(items, 1, Len(items) - 1)),
                     items[Len(items)])

TopLimit == 10

\* sorted(counts.items(), key=lambda x: x[1], reverse=True)[:10]
Top(counts) == Slice(SortedByCount(counts), 0, TopLimit)

\* the try block of the recent count and its bare except
IsRecent(opp, week_ago) ==
    LET posted_date == Get(opp, "posted_date", Empty)
        opp_date == FromIsoFormat(ReplaceZ(posted_date))
    IN  /\ Truthy(posted_date)
        /\ opp_date.valid
        /\ Comparable(opp_date, week_ago)
        /\ AtLeast(opp_date, week_ago)

Stats(opportunities, now) ==
    [total_opportunities |-> Len(opportunities),
     active_opportunities |->
         Len(SelectSeq(opportunities,
                       LAMBDA o : Lower(Get(o, "active", Empty)) = YesLower)),
     recent_opportunities |->
         Len(SelectSeq(opportunities,
                       LAMBDA o : IsRecent(o, MinusDays(now, 7)))),
     top_agencies |-> Top(AgencyCounts(opportunities)),
     top_naics |-> Top(NaicsCounts(opportunities))]

\* GET /api/stats, app.py
GetStats(now) ==
    /\ op = "none"
    /\ op' = "get_stats"
    /\ req' = [now |-> now]
    /\ resp' = IF ~store_up THEN ErrorResponse("database unavailable")
               ELSE [status |-> 200, body |-> Stats(store, now)]
    /\ UNCHANGED <<store, store_up, threads, db>>

\* GET /api/stats, app_render.py
ApiStats(now) ==
    /\ op = "none"
    /\ op' = "api_stats"
    /\ req' = [now |-> now]
    /\ resp' = [status |-> 200, body |-> Stats(RenderOpportunities, now)]
    /\ UNCHANGED <<store, store_up, threads, db>>

----------------------------------------------------------------------------
(* Records, clock readings and requests of the single-opportunity handlers  *)
(* and of the statistics                                                    *)

\* response_deadline and posted_date texts
DeadlineZ == <<50, 48, 50, 52, 45, 48, 50, 45, 49, 53, 84, 49, 55, 58, 48, 48, 58, 48, 48, 90>>
DeadlineNaive == <<50, 48, 50, 52, 45, 48, 50, 45, 49, 53, 84, 49, 55, 58, 48, 48, 58, 48, 48>>
DeadlineDateOnly == <<50, 48, 50, 52, 45, 48, 49, 45, 48, 49>>
DeadlineNoDate == <<110, 111, 116, 45, 97, 45, 100, 97, 116, 101>>

\* with an offset; 7 days and 14 days after the first clock reading to the
\* second, and one second less; an hour before it; a day that does not exist
Deadlines ==
    {DeadlineZ, DeadlineNaive, DeadlineDateOnly, DeadlineNoDate, Empty,
     \* '2024-02-15T17:00:00+00:00'
     <<50, 48, 50, 52, 45, 48, 50, 45, 49, 53, 84, 49, 55, 58, 48, 48, 58, 48, 48, 43, 48, 48, 58, 48, 48>>,
     \* '2024-02-17T12:00:00', '2024-02-17T11:59:59'
     <<50, 48, 50, 52, 45, 48, 50, 45, 49, 55, 84, 49, 50, 58, 48, 48, 58, 48, 48>>,
     <<50, 48, 50, 52, 45, 48, 50, 45, 49, 55, 84, 49, 49, 58, 53, 57, 58, 53, 57>>,
     \* '2024-02-24T12:00:00', '2024-02-24T11:59:59'
     <<50, 48, 50, 52, 45, 48, 50, 45, 50, 52, 84, 49, 50, 58, 48, 48, 58, 48, 48>>,
     <<50, 48, 50, 52, 45, 48, 50, 45, 50, 52, 84, 49, 49, 58, 53, 57, 58, 53, 57>>,
     \* '2024-02-10T11:00:00'
     <<50, 48, 50, 52, 45, 48, 50, 45, 49, 48, 84, 49, 49, 58, 48, 48, 58, 48, 48>>,
     \* '2024-02-30'
     <<50, 48, 50, 52, 45, 48, 50, 45, 51, 48>>}

\* type_of_set_aside_description texts
SetAsideVeteranSmall == <<86, 101, 116, 101, 114, 97, 110, 45, 79, 119, 110, 101, 100, 32, 83, 109, 97, 108, 108, 32, 66, 117, 115, 105, 110, 101, 115, 115>>

SetAsides ==
    {Empty, SetAsideVeteranSmall,
     \* 'Women-Owned Veteran'
     <<87, 111, 109, 101, 110, 45, 79, 119, 110, 101, 100, 32, 86, 101, 116, 101, 114, 97, 110>>,
     \* 'Service-Disabled VETERAN'
     <<83, 101, 114, 118, 105, 99, 101, 45, 68, 105, 115, 97, 98, 108, 101, 100, 32, 86, 69, 84, 69, 82, 65, 78>>,
     \* '8(a)'
     <<56, 40, 97, 41>>}

\* 'ab ab ab ...' of length n
Filler(n) == [i \in 1..n |-> <<97, 98, 32>>[((i - 1) % 3) + 1]]

\* description texts
Descriptions ==
    {Empty,
     \* 'Annual report due'
     <<65, 110, 110, 117, 97, 108, 32, 114, 101, 112, 111, 114, 116, 32, 100, 117, 101>>,
     \* 'REPORT then report'
     <<82, 69, 80, 79, 82, 84, 32, 116, 104, 101, 110, 32, 114, 101, 112, 111, 114, 116>>,
     \* twelve deliverable keywords:
     \* 'reports documents plans systems platforms websites'
     <<114, 101, 112, 111, 114, 116, 115, 32, 100, 111, 99, 117, 109, 101, 110, 116, 115, 32, 112, 108, 97, 110, 115, 32, 115, 121, 115, 116, 101, 109, 115, 32, 112, 108, 97, 116, 102, 111, 114, 109, 115, 32, 119, 101, 98, 115, 105, 116, 101, 115>>,
     \* seventeen requirement keywords: 'requirements needs qualifications
     \* certifications licenses clearances deadlines milestones budgets'
     <<114, 101, 113, 117, 105, 114, 101, 109, 101, 110, 116, 115, 32, 110, 101, 101, 100, 115, 32, 113, 117, 97, 108, 105, 102, 105, 99, 97, 116, 105, 111, 110, 115, 32, 99, 101, 114, 116, 105, 102, 105, 99, 97, 116, 105, 111, 110, 115, 32, 108, 105, 99, 101, 110, 115, 101, 115, 32, 99, 108, 101, 97, 114, 97, 110, 99, 101, 115, 32, 100, 101, 97, 100, 108, 105, 110, 101, 115, 32, 109, 105, 108, 101, 115, 116, 111, 110, 101, 115, 32, 98, 117, 100, 103, 101, 116, 115>>,
     \* 'must report' in the middle of a long text
     Filler(120) \o <<109, 117, 115, 116, 32, 114, 101, 112, 111, 114, 116, 32>> \o Filler(120),
     \* 'need plan' and 'must report' at the two ends of a long text
     <<110, 101, 101, 100, 32, 112, 108, 97, 110, 32>> \o Filler(240) \o <<109, 117, 115, 116, 32, 114, 101, 112, 111, 114, 116>>,
     \* 'report' after 51 letters U+0130, which str.lower() lengthens
     [i \in 1..51 |-> 304] \o <<114, 101, 112, 111, 114, 116>>,
     \* 'must' after 101 letters U+0130
     [i \in 1..101 |-> 304] \o <<109, 117, 115, 116>>,
     Filler(DescriptionLimit - 1), Filler(DescriptionLimit),
     Filler(DescriptionLimit + 1), Filler(DescriptionLimit + 100)}

Naics54 == <<53, 52>>               \* '54'

\* the record under evaluation has id 'E'
EvalId == <<69>>
EvalBase == [notice_id |-> EvalId, title |-> <<69, 118>>]

\* with a field more
With(rec, field, value) ==
    [f \in DOMAIN rec \cup {field} |-> IF f = field THEN value ELSE rec[f]]

\* every deadline text, on a record carrying the three other tags
DeadlineFamily ==
    LET tagged == With(With(With(EvalBase,
                      "type_of_set_aside_description", SetAsideVeteranSmall),
                      "naics_code", Naics54), "active", Yes)
    IN  {tagged} \cup {With(tagged, "response_deadline", d) : d \in Deadlines}

\* every combination of set-aside, NAICS code and active flag, on a record
\* with a deadline that parses
TagFamily ==
    LET dated == With(EvalBase, "response_deadline", DeadlineNaive)
        SetAside == {dated} \cup
            {With(dated, "type_of_set_aside_description", t) : t \in SetAsides}
        Coded == SetAside \cup
            {With(r, "naics_code", c) : r \in SetAside, c \in {Empty, Naics54}}
    IN  Coded \cup
            {With(r, "active", a) : r \in Coded, a \in {YesUpper, No, Es}}

DescriptionFamily ==
    {EvalBase} \cup {With(EvalBase, "description", d) : d \in Descriptions}

EvalPool == DeadlineFamily \cup TagFamily \cup DescriptionFamily

\* the record under evaluation, after some other records
EvalStores ==
    {<<>>} \cup
    {SubSeq(<<RecA, RecB, RecC, RecD>>, 1, k) \o <<r>> :
        k \in 0..MaxFillers, r \in EvalPool}

\* the i-th record of a store for the statistics: agencies and NAICS codes
\* repeat every m records; some records lack a field or hold the empty text
StatsRec(i, m) ==
    LET base == [notice_id |-> <<64 + i>>,
                 active |-> IF i % 3 = 0 THEN No ELSE YesUpper,
                 posted_date |-> IF i % 4 = 0 THEN DeadlineZ
                                 ELSE IF i % 4 = 1 THEN DeadlineNaive
                                 ELSE IF i % 4 = 2 THEN DeadlineDateOnly
                                 ELSE DeadlineNoDate]
        agencied == IF i % 7 = 0 THEN base
                    ELSE With(base, "full_parent_path_name", <<65 + (i % m)>>)
    IN  IF i % 5 = 0 THEN With(agencied, "naics_code", Empty)
        ELSE IF i % 11 = 0 THEN agencied
        ELSE With(agencied, "naics_code", <<97 + (i % m)>>)

StatsStores ==
    {[i \in 1..n |-> StatsRec(i, m)] : n \in 0..MaxStatsRecords, m \in {2, 13}}

\* datetime.now(): 2024-02-10 12:00:00 and 2024-02-01 00:00:00
Nows == {DateTime(2024, 2, 10, 12, 0, 0), DateTime(2024, 2, 1, 0, 0, 0)}

\* requested ids: 'E', 'A', 'D1' and 'Z', which no record carries
NoticeIds == {EvalId, <<65>>, <<68, 49>>, <<90>>}

InitEval ==
    /\ store \in EvalStores \cup StatsStores
    /\ store_up \in BOOLEAN
    /\ op = "none"
    /\ req = <<>>
    /\ resp = NoResponse
    /\ threads = <<>>
    /\ db = <<>>

NextEval ==
    \/ \E id \in NoticeIds : GetOpportunity(id)
    \/ \E id \in NoticeIds : ApiOpportunity(id)
    \/ \E id \in NoticeIds, now \in Nows : EvaluateOpportunity(id, now)
    \/ \E id \in NoticeIds, now \in Nows : ApiEvaluateOpportunity(id, now)
    \/ \E id \in NoticeIds : GetDeliverables(id)
    \/ \E id \in NoticeIds : GetProposalRequirements(id)
    \/ \E now \in Nows : GetStats(now)
    \/ \E now \in Nows : ApiStats(now)
    \/ Respond

SpecEval == InitEval /\ [][NextEval]_vars

----------------------------------------------------------------------------
(* Vocabulary of the properties *)

InMemoryOp == op \in {"get_opportunities", "api_opportunities"}

\* the handler obtained a record set
Readable == op = "api_opportunities" \/ store_up

\* the record set the handler of the current request read
Records == IF op = "api_opportunities" THEN RenderOpportunities ELSE store

Succeeded == resp.status = 200

\* rows of an answer; an error answer of the in-memory handlers carries none
Rows == IF ~InMemoryOp THEN resp.body.data
        ELSE IF Succeeded THEN resp.body.opportunities ELSE <<>>

Ids(rows) == {rows[i].notice_id : i \in 1..Len(rows)}
IdSeq(rows) == [i \in 1..Len(rows) |-> rows[i].notice_id]

\* the filtered-and-sorted sequence of the current in-memory request
FilteredSorted ==
    SortOpportunities(FilterOpportunities(Records, req), req.sort_by, req.sort_order)

\* least n with n * d >= t, for d > 0 and t >= 0
Ceil(t, d) == CHOOSE n \in 0..t : n * d >= t /\ \A m \in 0..(n - 1) : m * d < t

\* the window of the request is the whole filtered sequence
WholeWindow == req.page = 1 /\ req.per_page >= Max(Len(Records), 1)

----------------------------------------------------------------------------
(* Pagination: C1 - C4 *)

\* C1: for page >= 1 and per_page >= 1 the in-memory handlers return exactly
\* the elements at 0-based positions [(page-1)*per_page, page*per_page) of
\* the filtered-and-sorted sequence, clipped to its length, in that order,
\* and total is the number of records that pass the filters.
C1_WindowOfFilteredSorted ==
    (InMemoryOp /\ Readable /\ req.page >= 1 /\ req.per_page >= 1) =>
        LET lo == (req.page - 1) * req.per_page
            hi == Min(req.page * req.per_page, Len(FilteredSorted))
        IN  /\ Succeeded
            /\ Len(Rows) = Max(hi - lo, 0)
            /\ \A i \in 1..Len(Rows) : Rows[i] = FilteredSorted[lo + i]
            /\ resp.body.pagination.total =
                   Cardinality({i \in 1..Len(Records) : Appended(Records[i], req)})

\* second page of one row over two of three records
C1_Witness ==
    /\ op = "get_opportunities" /\ Succeeded
    /\ store = <<RecA, RecB, RecC>>
    /\ req.active = YesUpper /\ req.sort_order = "asc"
    /\ req.page = 2 /\ req.per_page = 1
    /\ resp.body.pagination.total = 2
    /\ Rows = <<RecC>>

\* C2: for per_page > 0, total_pages = ceil(total / per_page) (0 when total
\* is 0), has_next = (page < total_pages), has_prev = (page > 1); 25 records
\* with per_page = 10 and page = 3 give 5 rows, has_next false, has_prev true.
C2_PaginationMetadata ==
    (InMemoryOp /\ Readable /\ req.per_page > 0) =>
        /\ Succeeded
        /\ LET m == resp.body.pagination
           IN  /\ m.total >= 0
               /\ m.total_pages = Ceil(m.total, req.per_page)
               /\ (m.total = 0 => m.total_pages = 0)
               /\ m.has_next = (req.page < m.total_pages)
               /\ m.has_prev = (req.page > 1)
               /\ (m.total = 25 /\ req.per_page = 10 /\ req.page = 3) =>
                      (Len(Rows) = 5 /\ ~m.has_next /\ m.has_prev)

C2_Witness ==
    /\ InMemoryOp /\ Succeeded
    /\ Len(store) = 25 /\ store_up
    /\ req.per_page = 10 /\ req.page = 3
    /\ resp.body.pagination.total = 25
    /\ resp.body.pagination.total_pages = 3
    /\ Len(Rows) = 5

\* C3 as stated: for all non-negative page and per_page the number of rows
\* is at most per_page, and is exactly per_page unless the requested page is
\* the last page (page total_pages, or page 1 of an empty result).
C3_Original ==
    (InMemoryOp /\ Readable /\ req.page >= 0 /\ req.per_page >= 0) =>
        /\ Len(Rows) <= req.per_page
        /\ (Succeeded /\ req.page # Max(resp.body.pagination.total_pages, 1)) =>
               Len(Rows) = req.per_page

\* C3 (amended): for all non-negative page and per_page the number of rows
\* returned is at most per_page; it is exactly per_page on every page before
\* the last (1 <= page < total_pages), and page 0 and the pages beyond the
\* last return no rows.
C3_RowCount ==
    (InMemoryOp /\ Readable /\ req.page >= 0 /\ req.per_page >= 0) =>
        /\ Len(Rows) <= req.per_page
        /\ Succeeded =>
               LET m == resp.body.pagination
               IN  /\ (1 <= req.page /\ req.page < m.total_pages) =>
                          Len(Rows) = req.per_page
                   /\ (req.page = 0 \/ req.page > m.total_pages) =>
                          Len(Rows) = 0

\* a full first page that is followed by a shorter last page
C3_Witness ==
    /\ InMemoryOp /\ Succeeded
    /\ req.page = 1 /\ req.per_page = 2
    /\ resp.body.pagination.total = 3
    /\ resp.body.pagination.total_pages = 2
    /\ Len(Rows) = 2

\* C4: for per_page <= 0, for negative page and for pages beyond the last
\* page, the handlers return a successful result with an empty row window
\* and non-negative total and total_pages.
C4_EdgeCasesEmptyWindow ==
    (/\ InMemoryOp /\ Readable
     /\ \/ req.per_page <= 0
        \/ req.page < 0
        \/ req.page > Ceil(Len(FilterOpportunities(Records, req)), req.per_page)) =>
        /\ Succeeded
        /\ Rows = <<>>
        /\ resp.body.pagination.total >= 0
        /\ resp.body.pagination.total_pages >= 0

----------------------------------------------------------------------------
(* The two variants: C5 *)

\* the in-memory request equivalent to the current pushdown request
EquivalentQuery ==
    [DefaultQuery EXCEPT !.page = (req.start \div req.length) + 1,
                         !.per_page = req.length,
                         !.search = req.search,
                         !.sort_by = ColumnField(OrderBy(req.order_col)),
                         !.sort_order = IF OrderDir(req.order_dir) = "DESC"
                                        THEN "desc" ELSE "asc"]

\* C5: for the same record set and equivalent inputs (same search string,
\* same sort field and direction, offset = (page-1)*per_page, length =
\* per_page) get_opportunities and list_opportunities return the same total
\* and the same rows in the same order.
C5_VariantsAgree ==
    (/\ op = "list_opportunities" /\ store_up
     /\ req.length >= 1 /\ req.start >= 0 /\ req.start % req.length = 0
     /\ ColumnField(OrderBy(req.order_col)) \in SortAllowList) =>
        LET m == QueryOpportunities(store, EquivalentQuery)
        IN  /\ Succeeded
            /\ m.status = 200
            /\ m.body.pagination.total = resp.body.recordsTotal
            /\ IdSeq(m.body.opportunities) = IdSeq(Rows)

----------------------------------------------------------------------------
(* Filters: C6 - C9 *)

\* the current request with every filter but one emptied
OnlySearch == [req EXCEPT !.agency = Empty, !.naics = Empty, !.active = Empty]
OnlyAgency == [req EXCEPT !.search = Empty, !.naics = Empty, !.active = Empty]
OnlyNaics == [req EXCEPT !.search = Empty, !.agency = Empty, !.active = Empty]
OnlyActive == [req EXCEPT !.search = Empty, !.agency = Empty, !.naics = Empty]

Returned(q) == Ids(QueryOpportunities(Records, q).body.opportunities)

\* C6: filtering is a pure conjunction: the set of notice_ids returned with
\* several filters equals the intersection of the sets returned with each
\* filter alone, and a record is kept iff it passes every non-empty filter.
C6_FilterConjunction ==
    (InMemoryOp /\ Readable /\ WholeWindow) =>
        /\ Succeeded
        /\ Ids(Rows) = Returned(OnlySearch) \cap Returned(OnlyAgency)
                         \cap Returned(OnlyNaics) \cap Returned(OnlyActive)
        /\ \A i \in 1..Len(Records) :
              Records[i].notice_id \in Ids(Rows) <=>
                  /\ ~SearchSkip(req.search, Records[i])
                  /\ ~AgencySkip(req.agency, Records[i])
                  /\ ~NaicsSkip(req.naics, Records[i])
                  /\ ~ActiveSkip(req.active, Records[i])

\* agency 'B' keeps B and C, naics '2' keeps A and B, together they keep B
C6_Witness ==
    /\ op = "get_opportunities" /\ Succeeded
    /\ store = <<RecA, RecB, RecC>>
    /\ req.agency = <<66>> /\ req.naics = <<50>>
    /\ req.search = Empty /\ req.active = Empty
    /\ Returned(OnlyAgency) = {<<66>>, <<67>>}
    /\ Returned(OnlyNaics) = {<<65>>, <<66>>}
    /\ Rows = <<RecB>>

\* two characters are the same letter in either case, or the same character
SameIgnoringCase(c, d) ==
    \/ c = d
    \/ c \in 65..90 /\ d = c + 32
    \/ c \in 97..122 /\ d = c - 32

EqualIgnoringCase(a, b) ==
    Len(a) = Len(b) /\ \A i \in 1..Len(a) : SameIgnoringCase(a[i], b[i])

ContainsIgnoringCase(needle, hay) ==
    \E i \in 0..(Len(hay) - Len(needle)) :
        EqualIgnoringCase(needle, SubSeq(hay, i + 1, i + Len(needle)))

\* C7: the active filter keeps a record iff the filter value equals the
\* record's active field ignoring case (never substring containment); an
\* empty value keeps every record; A(active=Yes), B(active=No) with
\* active=Yes yield rows [A] and total 1.
C7_ActiveExactMatch ==
    (InMemoryOp /\ Readable /\ WholeWindow) =>
        /\ Succeeded
        /\ \A i \in 1..Len(Records) :
              (/\ ~SearchSkip(req.search, Records[i])
               /\ ~AgencySkip(req.agency, Records[i])
               /\ ~NaicsSkip(req.naics, Records[i])) =>
                  (Records[i].notice_id \in Ids(Rows) <=>
                      \/ req.active = Empty
                      \/ EqualIgnoringCase(req.active,
                                           Get(Records[i], "active", Empty)))
        /\ (Records = <<RecA, RecB>> /\ req = [DefaultQuery EXCEPT !.active = Yes]) =>
               (Rows = <<RecA>> /\ resp.body.pagination.total = 1)

C7_Witness ==
    /\ InMemoryOp /\ Succeeded
    /\ store_up /\ store = <<RecA, RecB>>
    /\ req = [DefaultQuery EXCEPT !.active = Yes]
    /\ Rows = <<RecA>>
    /\ resp.body.pagination.total = 1

\* C8: the agency filter keeps a record iff the filter value occurs in the
\* record's full_parent_path_name when both are compared case-insensitively.
C8_AgencyIgnoringCase ==
    (InMemoryOp /\ Readable /\ WholeWindow) =>
        /\ Succeeded
        /\ \A i \in 1..Len(Records) :
              (/\ ~SearchSkip(req.search, Records[i])
               /\ ~NaicsSkip(req.naics, Records[i])
               /\ ~ActiveSkip(req.active, Records[i])) =>
                  (Records[i].notice_id \in Ids(Rows) <=>
                      ContainsIgnoringCase(req.agency,
                          Get(Records[i], "full_parent_path_name", Empty)))

\* the search string occurs in title + ' ' + description, ignoring case
SearchMatches(search, opp) ==
    \/ search = Empty
    \/ ContainsIgnoringCase(search, Get(opp, "title", Empty) \o Space
                                    \o Get(opp, "description", Empty))

C9_InMemory ==
    (InMemoryOp /\ Readable /\ WholeWindow) =>
        /\ Succeeded
        /\ \A i \in 1..Len(Records) :
              (/\ ~AgencySkip(req.agency, Records[i])
               /\ ~NaicsSkip(req.naics, Records[i])
               /\ ~ActiveSkip(req.active, Records[i])) =>
                  (Records[i].notice_id \in Ids(Rows) <=>
                      SearchMatches(req.search, Records[i]))

C9_Pushdown ==
    (/\ op = "list_opportunities" /\ store_up
     /\ req.start = 0 /\ req.length >= Len(store)) =>
        /\ Succeeded
        /\ \A i \in 1..Len(store) :
              store[i].notice_id \in Ids(Rows) <=>
                  SearchMatches(req.search, store[i])

\* C9: the search filter keeps a record iff the search string, compared
\* case-insensitively, is a substring of title + ' ' + description; an empty
\* search string keeps every record.
C9_SearchTitleDescription == C9_InMemory /\ C9_Pushdown

----------------------------------------------------------------------------
(* Sort field fallback: C10 *)

C10_InMemory ==
    (InMemoryOp /\ Readable /\ req.sort_by \notin SortAllowList) =>
        resp = QueryOpportunities(Records, [req EXCEPT !.sort_by = "posted_date"])

C10_Pushdown ==
    (op = "list_opportunities" /\ store_up /\ req.order_col \notin DOMAIN col_map) =>
        /\ Succeeded
        /\ \E sorted \in OrderByResults(Matching(Strip(req.search)), "posted_date",
                                        OrderDir(req.order_dir)) :
              Rows = LimitOffset(sorted, req.length, req.start)

\* C10: when sort_by (or order_col) is not in the allow-list, the handlers
\* do not fail and return the rows ordered as if posted_date had been
\* requested with the given direction.
C10_SortFallback == C10_InMemory /\ C10_Pushdown

----------------------------------------------------------------------------
(* Stable sort: C11 *)

\* the place of the record with that id in a sequence of records or rows
PositionOf(rows, notice_id) ==
    CHOOSE i \in 1..Len(rows) : rows[i].notice_id = notice_id

KeptOrder(rows, input, Key(_)) ==
    \A i, j \in 1..Len(rows) :
        (i < j /\ Key(rows[i]) = Key(rows[j])) =>
            PositionOf(input, rows[i].notice_id) < PositionOf(input, rows[j].notice_id)

C11_InMemory ==
    (InMemoryOp /\ Succeeded) =>
        KeptOrder(Rows, Records, LAMBDA x : SortKey(x, req.sort_by))

C11_Pushdown ==
    (op = "list_opportunities" /\ Succeeded) =>
        KeptOrder(Rows, Table, LAMBDA row : row[OrderBy(req.order_col)])

\* C11: two records with identical sort-key values come out in the relative
\* order they have in the input record sequence, for sort_order asc and for
\* sort_order desc, in both variants of the listing.
C11_SortStable == C11_InMemory /\ C11_Pushdown

----------------------------------------------------------------------------
(* Evaluation: C12 - C16 *)

EvaluateOp == op \in {"evaluate_opportunity", "api_evaluate_opportunity"}

\* the evaluation of a record was answered
Evaluated == EvaluateOp /\ Succeeded

\* the record with the requested id that the handler read
Opportunity ==
    IF op \in {"api_opportunity", "api_evaluate_opportunity"}
    THEN RenderFound(req.notice_id)[1]
    ELSE Found(store, req.notice_id)[1]

DeadlineTags == {"urgent", "plan accordingly", "good planning time", "format unclear"}
SetAsideTags == {"small business", "women-owned", "veteran-owned"}
ActiveTags == {"active", "inactive"}

\* the tags of one check, in the order they were answered
TagsAmong(tags) ==
    LET chosen == SelectSeq(resp.body.recommendations, LAMBDA r : r.tag \in tags)
    IN  [i \in 1..Len(chosen) |-> chosen[i].tag]

\* the deadline text of the record; an absent field is an empty deadline
Deadline == Get(Opportunity, "response_deadline", Empty)

\* the text is an ISO-8601 date or timestamp, with or without the Z suffix
\* or a UTC offset
ParsesAsIso(text) == FromIsoFormat(ReplaceZ(text)).valid

\* whole days from the clock reading to the deadline, counted downwards
DaysUntil(text, now) ==
    LET deadline == FromIsoFormat(ReplaceZ(text))
    IN  FloorDiv((deadline.day - now.day) * 86400 + deadline.sec - now.sec, 86400)

Tier(d) ==
    IF d < 7 THEN "urgent"
    ELSE IF d < 14 THEN "plan accordingly"
    ELSE "good planning time"

\* the deadline tag the claim asks for
ExpectedDeadlineTags ==
    IF ~Truthy(Deadline) THEN <<>>
    ELSE IF ~ParsesAsIso(Deadline) THEN << "format unclear" >>
    ELSE << Tier(DaysUntil(Deadline, req.now)) >>

HasSuffixZ(text) == Len(text) > 0 /\ text[Len(text)] = 90

\* C12 on the deadlines without a Z suffix or an offset
C12_Naive ==
    (Evaluated /\ Truthy(Deadline) /\ ParsesAsIso(Deadline)
               /\ ~FromIsoFormat(ReplaceZ(Deadline)).aware) =>
        TagsAmong(DeadlineTags) = ExpectedDeadlineTags

C12_Unparseable ==
    (Evaluated /\ Truthy(Deadline) /\ ~ParsesAsIso(Deadline)) =>
        TagsAmong(DeadlineTags) = << "format unclear" >>

C12_Empty ==
    (Evaluated /\ ~Truthy(Deadline)) => TagsAmong(DeadlineTags) = <<>>

\* C12: a non-empty deadline that parses as ISO-8601 gets exactly one
\* urgency tag, chosen by the whole-day difference d to now: urgent for
\* d < 7 (past deadlines too), plan-ahead for 7 <= d < 14, comfortable for
\* d >= 14; a non-empty deadline that does not parse gets exactly the
\* 'format unclear' tag; an empty deadline gets no deadline tag.
C12_DeadlineUrgency ==
    Evaluated => TagsAmong(DeadlineTags) = ExpectedDeadlineTags

\* C13: a valid ISO-8601 deadline with a trailing Z is classified into one
\* of the three urgency tiers by its day difference to now, and gets no
\* 'format unclear' tag.
C13_ZSuffixParseable ==
    (Evaluated /\ HasSuffixZ(Deadline) /\ ParsesAsIso(Deadline)) =>
        TagsAmong(DeadlineTags) = << Tier(DaysUntil(Deadline, req.now)) >>

\* the check a tag comes from: 1 deadline, 2 set-aside, 3 NAICS, 4 active
Rank(recommendation) ==
    IF recommendation.tag \in DeadlineTags THEN 1
    ELSE IF recommendation.tag \in SetAsideTags THEN 2
    ELSE IF recommendation.tag = "naics" THEN 3
    ELSE 4

InFixedOrder(recommendations) ==
    \A i, j \in 1..Len(recommendations) :
        i < j => Rank(recommendations[i]) <= Rank(recommendations[j])

NaicsPassedThrough(recommendations) ==
    Truthy(Get(Opportunity, "naics_code", Empty)) =>
        \E i \in 1..Len(recommendations) :
            recommendations[i] = [tag |-> "naics", code |-> Opportunity.naics_code]

C14_App ==
    (op = "evaluate_opportunity" /\ Succeeded) =>
        /\ InFixedOrder(resp.body.recommendations)
        /\ NaicsPassedThrough(resp.body.recommendations)

C14_Render ==
    (op = "api_evaluate_opportunity" /\ Succeeded) =>
        /\ InFixedOrder(resp.body.recommendations)
        /\ NaicsPassedThrough(resp.body.recommendations)

\* C14: the recommendations come in the fixed order deadline urgency,
\* set-aside classification, NAICS passthrough, active status: no tag of a
\* later check precedes a tag of an earlier check, and the NAICS tag is
\* present whenever naics_code is non-empty.
C14_FixedOrder == C14_App /\ C14_Render

SetAside == Get(Opportunity, "type_of_set_aside_description", Empty)

\* the set-aside tag the claim asks for: the first keyword that occurs
ExpectedSetAsideTags ==
    IF ContainsIgnoringCase(SmallBusiness, SetAside) THEN << "small business" >>
    ELSE IF ContainsIgnoringCase(Women, SetAside) THEN << "women-owned" >>
    ELSE IF ContainsIgnoringCase(Veteran, SetAside) THEN << "veteran-owned" >>
    ELSE <<>>

C15_App ==
    (op = "evaluate_opportunity" /\ Succeeded) =>
        TagsAmong(SetAsideTags) = ExpectedSetAsideTags

C15_Render ==
    (op = "api_evaluate_opportunity" /\ Succeeded) =>
        TagsAmong(SetAsideTags) = ExpectedSetAsideTags

\* C15: a non-empty type_of_set_aside_description gets at most one
\* set-aside tag, that of the first of 'small business', 'women', 'veteran'
\* occurring in it in any case (a text with both 'women' and 'veteran' gets
\* the women tag only); no keyword, or an empty field, gets no set-aside tag.
C15_SetAsideFirstMatch == C15_App /\ C15_Render

\* C16: the description of an evaluation is the opportunity's description
\* unchanged when it has at most 500 characters, and otherwise its first
\* 500 characters followed by '...'; it never exceeds 503 characters.
C16_DescriptionTruncated ==
    Evaluated =>
        LET description == Get(Opportunity, "description", None)
        IN  /\ (description = None \/ Len(description) <= 500) =>
                   resp.body.description = description
            /\ (description # None /\ Len(description) > 500) =>
                   resp.body.description =
                       SubSeq(description, 1, 500) \o <<46, 46, 46>>
            /\ (resp.body.description # None =>
                   Len(resp.body.description) <= 503)

C16_Witness ==
    /\ Evaluated
    /\ "description" \in DOMAIN Opportunity
    /\ Len(Opportunity.description) = 501
    /\ Len(resp.body.description) = 503

----------------------------------------------------------------------------
(* Extraction: C17, C18 *)

\* an extraction was answered
Extracted == op \in {"get_deliverables", "get_proposal_requirements"} /\ Succeeded

Description == Get(Opportunity, "description", Empty)

Keywords ==
    IF op = "get_deliverables" THEN deliverable_keywords ELSE requirement_keywords

Window == IF op = "get_deliverables" THEN 50 ELSE 100

MaxResults == IF op = "get_deliverables" THEN 10 ELSE 15

\* the 0-based places where the keyword occurs in the text, in any case
Occurrences(keyword, text) ==
    {i \in 0..(Len(text) - Len(keyword)) :
        EqualIgnoringCase(keyword, SubSeq(text, i + 1, i + Len(keyword)))}

\* the places in the keyword list of the keywords that occur
MatchingKeywords ==
    {k \in 1..Len(Keywords) : Occurrences(Keywords[k], Description) # {}}

\* the n-th least member of a set of numbers
Nth(S, n) == CHOOSE k \in S : Cardinality({j \in S : j <= k}) = n

\* one context per matching keyword, in the order of the keyword list
Uncapped ==
    [i \in 1..Cardinality(MatchingKeywords) |->
        Context(Description, Lower(Description),
                Keywords[Nth(MatchingKeywords, i)], Window)]

\* C17: the extraction result is the sequence of the contexts of the
\* matching keywords in the order of the keyword list, one context per
\* matching keyword, cut to the first maxResults entries (10 deliverables,
\* 15 proposal requirements): it is a prefix of the uncapped result.
C17_KeywordOrderCap ==
    Extracted =>
        resp.body.requirements =
            SubSeq(Uncapped, 1, Min(Len(Uncapped), MaxResults))

\* more keywords match than are answered
C17_Witness ==
    /\ Extracted
    /\ Cardinality(MatchingKeywords) > MaxResults
    /\ Len(resp.body.requirements) = MaxResults

\* two keywords with different contexts, the later of the text first
C17_WitnessOrder ==
    /\ Extracted
    /\ Len(resp.body.requirements) = 2
    /\ resp.body.requirements[1] # resp.body.requirements[2]

\* the keyword of the i-th context
KeywordOf(i) == Keywords[Nth(MatchingKeywords, i)]

C18_Length ==
    Extracted =>
        \A i \in 1..Len(resp.body.requirements) :
            Len(resp.body.requirements[i]) <= Window + Len(KeywordOf(i)) + Window

C18_Within ==
    Extracted =>
        \A i \in 1..Len(resp.body.requirements) :
            Contains(resp.body.requirements[i], Description)

C18_KeywordKept ==
    Extracted =>
        \A i \in 1..Len(resp.body.requirements) :
            Cardinality(Occurrences(KeywordOf(i), Description)) = 1 =>
                Occurrences(KeywordOf(i), resp.body.requirements[i]) # {}

\* C18_KeywordKept on the descriptions that str.lower() does not lengthen
C18_KeywordKeptSameLength ==
    (Extracted /\ Len(Lower(Description)) = Len(Description)) =>
        \A i \in 1..Len(resp.body.requirements) :
            Cardinality(Occurrences(KeywordOf(i), Description)) = 1 =>
                Occurrences(KeywordOf(i), resp.body.requirements[i]) # {}

C18_Empty ==
    (Extracted /\ Description = Empty) => resp.body.requirements = <<>>

\* C18: every context has at most windowBefore + len(keyword) + windowAfter
\* characters (50/50 deliverables, 100/100 proposal requirements), lies
\* within the description and, when the description contains its keyword
\* exactly once, contains that occurrence; an empty description yields the
\* empty sequence.
C18_ContextWindow == C18_Length /\ C18_Within /\ C18_KeywordKept /\ C18_Empty

----------------------------------------------------------------------------
(* Unknown notice_id: C19 *)

SingleOp ==
    op \in {"get_opportunity", "api_opportunity", "evaluate_opportunity",
            "api_evaluate_opportunity", "get_deliverables",
            "get_proposal_requirements"}

RenderOp == op \in {"api_opportunity", "api_evaluate_opportunity", "api_stats"}

\* the records the handler of the current request looks into
Looked == IF RenderOp THEN RenderOpportunities ELSE store

\* the handler could read them
LookedUp == RenderOp \/ store_up

KnownId == req.notice_id \in Ids(Looked)

\* C19: for a notice_id that no record of the store carries, evaluate, the
\* two extractions and the single lookup answer 404 'Opportunity not found',
\* which is neither a success (200) nor the store failure (500) and carries
\* no evaluation and no extraction; a known id never gets that answer.
C19_NotFound ==
    (SingleOp /\ LookedUp) =>
        /\ ~KnownId =>
              /\ resp.status = 404
              /\ resp.body = [error |-> "Opportunity not found"]
        /\ KnownId => resp.status = 200
        /\ resp.status = 404 => ~KnownId

\* an extraction asked for an id that none of the stored records carries
C19_Witness ==
    /\ op = "get_proposal_requirements"
    /\ store_up /\ Len(store) > 0 /\ ~KnownId
    /\ resp.status = 404

----------------------------------------------------------------------------
(* Statistics: C20 *)

StatsAnswered == op \in {"get_stats", "api_stats"} /\ Succeeded

AgencyOf(opp) == Get(opp, "full_parent_path_name", Unknown)
NaicsOf(opp) == Get(opp, "naics_code", Unknown)

\* the places of the records carrying the value
Carrying(value, ValueOf(_)) ==
    {k \in 1..Len(Looked) : ValueOf(Looked[k]) = value}

FirstSeen(value, ValueOf(_)) ==
    CHOOSE k \in Carrying(value, ValueOf) :
        \A j \in Carrying(value, ValueOf) : k <= j

TopTable(table, ValueOf(_)) ==
    /\ Len(table) <= 10
    /\ \A i \in 1..Len(table) :
          table[i][2] = Cardinality(Carrying(table[i][1], ValueOf))
    /\ \A i, j \in 1..Len(table) :
          i < j =>
              /\ table[i][2] >= table[j][2]
              /\ table[i][2] = table[j][2] =>
                    FirstSeen(table[i][1], ValueOf) < FirstSeen(table[j][1], ValueOf)

\* C20: top_agencies and top_naics each hold at most 10 (value, count)
\* entries in non-increasing order of count, entries of equal count in the
\* order in which their values were first met in the opportunity sequence,
\* and each count is the number of records carrying the value.
C20_TopTables ==
    StatsAnswered =>
        /\ TopTable(resp.body.top_agencies, AgencyOf)
        /\ TopTable(resp.body.top_naics, NaicsOf)

\* more than ten agencies, equal counts at the head of the table, and the
\* agency met first not at the head
C20_Witness ==
    /\ StatsAnswered
    /\ Cardinality({AgencyOf(Looked[k]) : k \in 1..Len(Looked)}) > 10
    /\ Len(resp.body.top_agencies) = 10
    /\ resp.body.top_agencies[1][2] = resp.body.top_agencies[2][2]
    /\ resp.body.top_agencies[1][2] > resp.body.top_agencies[10][2]
    /\ resp.body.top_agencies[1][1] # AgencyOf(Looked[1])

----------------------------------------------------------------------------
(* Store failure: C22 *)

ListOp == op \in {"get_opportunities", "api_opportunities", "list_opportunities"}

\* the answer is an error outcome and nothing else
ExplicitError == resp.status = 500 /\ "error" \in DOMAIN resp.body

C22_App == (op = "get_opportunities" /\ ~store_up) => ExplicitError

C22_Render == (op = "api_opportunities" /\ ~store_up) => ExplicitError

C22_Pushdown == (op = "list_opportunities" /\ ~store_up) => ExplicitError

\* C22: when the store is unavailable during a listing, the caller gets an
\* explicit error outcome for that call and never a successful page, empty
\* or not, that hides the failure.
C22_StoreFailureSurfaced == (ListOp /\ ~store_up) => ExplicitError

----------------------------------------------------------------------------
(* Pushdown window and totals: C25 *)

PushdownAnswered == op = "list_opportunities" /\ Succeeded

\* the elements of a sequence at the 0-based positions [start, start+length)
PositionsWindow(seq, start, length) ==
    LET first == Max(start, 0)
        last == Min(start + length, Len(seq))
    IN  IF first < last THEN SubSeq(seq, first + 1, last) ELSE <<>>

\* the rows are that window of a filtered-then-sorted sequence
WindowOfSorted ==
    \E sorted \in OrderByResults(Matching(Strip(req.search)),
                                 OrderBy(req.order_col), OrderDir(req.order_dir)) :
        Rows = PositionsWindow(sorted, req.start, req.length)

C25_Window == PushdownAnswered => WindowOfSorted

\* C25_Window for a start and a length that are not negative
C25_WindowNonNegative ==
    (PushdownAnswered /\ req.start >= 0 /\ req.length >= 0) => WindowOfSorted

C25_Totals ==
    PushdownAnswered =>
        /\ resp.body.recordsTotal = Len(Matching(Strip(req.search)))
        /\ resp.body.recordsFiltered = resp.body.recordsTotal

\* C25: in the pushdown variant the rows are the elements at positions
\* [start, start+length) of the sequence obtained by filtering with the
\* search predicate and then sorting, and recordsTotal = recordsFiltered =
\* the number of records satisfying the search predicate, whatever start
\* and length are.
C25_PushdownWindow == C25_Window /\ C25_Totals

----------------------------------------------------------------------------
(* Lexicographic sort with empty keys at one end: C26 *)

\* the raw value of a field of a record, the empty text when it is absent
RawValue(x, field) == IF field \in DOMAIN x THEN x[field] ELSE Empty

\* the rows follow the plain text order of their keys in that direction
LexicographicOrder(rows, Key(_), descending) ==
    \A i, j \in 1..Len(rows) :
        i < j => IF descending THEN ~StrLess(Key(rows[i]), Key(rows[j]))
                 ELSE ~StrLess(Key(rows[j]), Key(rows[i]))

\* rows with an empty key come before (ascending) or after (descending)
\* every row with a non-empty key
EmptyKeysAtEnd(rows, Key(_), descending) ==
    \A i, j \in 1..Len(rows) :
        (Key(rows[i]) = Empty /\ Key(rows[j]) # Empty) =>
            IF descending THEN j < i ELSE i < j

SortedRequest == InMemoryOp /\ Succeeded /\ req.sort_by \in SortAllowList

C26_InMemory ==
    SortedRequest =>
        /\ LexicographicOrder(Rows, LAMBDA x : RawValue(x, req.sort_by),
                              req.sort_order = "desc")
        /\ EmptyKeysAtEnd(Rows, LAMBDA x : RawValue(x, req.sort_by),
                          req.sort_order = "desc")

C26_Pushdown ==
    PushdownAnswered =>
        /\ LexicographicOrder(Rows,
               LAMBDA row : COALESCE(row[OrderBy(req.order_col)], Empty),
               OrderDir(req.order_dir) = "DESC")
        /\ EmptyKeysAtEnd(Rows,
               LAMBDA row : COALESCE(row[OrderBy(req.order_col)], Empty),
               OrderDir(req.order_dir) = "DESC")

\* C26: the rows of a sorted listing follow the plain lexicographic order of
\* the raw values of the sort field, a missing or empty value counting as the
\* empty text: ascending, every row with a missing or empty key precedes every
\* row with a non-empty key; descending, it follows them.
C26_LexicographicSort == C26_InMemory /\ C26_Pushdown

\* an ascending sort moved a record without a key in front of a record with
\* one that preceded it in the store
C26_Witness ==
    /\ SortedRequest /\ req.sort_order = "asc"
    /\ \E i, j \in 1..Len(Rows) :
          /\ i < j
          /\ req.sort_by \notin DOMAIN Rows[i]
          /\ RawValue(Rows[j], req.sort_by) # Empty
          /\ PositionOf(Records, Rows[j].notice_id)
               < PositionOf(Records, Rows[i].notice_id)

\* a descending sort by title put a lower-case title before an upper-case one
C26_WitnessDescending ==
    /\ SortedRequest /\ req.sort_order = "desc" /\ req.sort_by = "title"
    /\ \E i, j \in 1..Len(Rows) :
          i < j /\ Rows[i].title = <<98>> /\ Rows[j].title = <<66>>

----------------------------------------------------------------------------
(* Pages partition the filtered and sorted sequence: C27 *)

\* the answer to the current request had it asked for page p
PageAnswer(p) == QueryOpportunities(Records, [req EXCEPT !.page = p])

PageRows(p) == PageAnswer(p).body.opportunities

\* the rows of the pages 1..n one after the other
RECURSIVE PagesThrough(_)
PagesThrough(n) == IF n <= 0 THEN <<>> ELSE PagesThrough(n - 1) \o PageRows(n)

PagedRequest == InMemoryOp /\ Succeeded /\ req.per_page >= 1

C27_Partition ==
    PagedRequest =>
        PagesThrough(resp.body.pagination.total_pages) = FilteredSorted

C27_HasNext ==
    (PagedRequest /\ req.page >= 1) =>
        (resp.body.pagination.has_next <=> Len(PageRows(req.page + 1)) > 0)

\* the answer is the page of the partition with its number
C27_AnswerIsPage ==
    (PagedRequest /\ req.page \in 1..resp.body.pagination.total_pages) =>
        /\ Rows = PageRows(req.page)
        /\ PagesThrough(req.page) =
               SubSeq(FilteredSorted, 1, Len(PagesThrough(req.page)))

\* C27: for per_page >= 1 the rows of the pages 1..total_pages, one page
\* after the other, are exactly the filtered and sorted sequence, no record
\* twice and none left out, and on a page >= 1 has_next is true exactly when
\* the following page holds a row.
C27_PagesPartition == C27_Partition /\ C27_HasNext /\ C27_AnswerIsPage

\* page 2 of at least three, under a filter that dropped records, with a
\* last page that is not full
C27_Witness ==
    /\ PagedRequest /\ req.page = 2 /\ req.per_page >= 2
    /\ resp.body.pagination.total_pages >= 3
    /\ resp.body.pagination.has_next
    /\ Len(FilteredSorted) < Len(Records)
    /\ Len(PageRows(resp.body.pagination.total_pages)) < req.per_page

----------------------------------------------------------------------------
(* Raw query-string arguments: int(request.args.get(name, default))        *)

\* int(text) in base 10: surrounding whitespace, then an optional sign, then
\* digits, single underscores allowed between digits
Unsigned(text) ==
    LET t == Strip(text)
    IN  IF Len(t) > 0 /\ t[1] \in {43, 45} THEN Tail(t) ELSE t

IsIntLiteral(text) ==
    LET u == Unsigned(text)
    IN  /\ Len(u) > 0
        /\ \A i \in 1..Len(u) :
              \/ IsDigit(u[i])
              \/ /\ u[i] = 95 /\ 1 < i /\ i < Len(u)
                 /\ IsDigit(u[i - 1]) /\ IsDigit(u[i + 1])

ParseInt(text) ==
    LET magnitude == Number(SelectSeq(Unsigned(text), IsDigit))
    IN  IF Strip(text)[1] = 45 THEN 0 - magnitude ELSE magnitude

\* an argument left out of the query string takes the integer default
RaisesValueError(arg) == arg # None /\ ~IsIntLiteral(arg)
IntArg(arg, default) == IF arg = None THEN default ELSE ParseInt(arg)

InvalidLiteral == ErrorResponse("invalid literal for int() with base 10")

\* app.py get_opportunities from the raw arguments
GetOpportunitiesArgs(args) ==
    /\ op = "none"
    /\ op' = "get_opportunities"
    /\ req' = args
    /\ resp' = IF RaisesValueError(args.page) \/ RaisesValueError(args.per_page)
               THEN InvalidLiteral
               ELSE IF store_up
               THEN QueryOpportunities(store,
                        [DefaultQuery EXCEPT !.page = IntArg(args.page, 1),
                                             !.per_page = IntArg(args.per_page, 20)])
               ELSE ErrorResponse("database unavailable")
    /\ UNCHANGED <<store, store_up, threads, db>>

\* app_render.py api_opportunities from the raw arguments
ApiOpportunitiesArgs(args) ==
    /\ op = "none"
    /\ op' = "api_opportunities"
    /\ req' = args
    /\ resp' = IF RaisesValueError(args.page) \/ RaisesValueError(args.per_page)
               THEN InvalidLiteral
               ELSE QueryOpportunities(RenderOpportunities,
                        [DefaultQuery EXCEPT !.page = IntArg(args.page, 1),
                                             !.per_page = IntArg(args.per_page, 20)])
    /\ UNCHANGED <<store, store_up, threads, db>>

\* server.py list_opportunities from the raw arguments
ListOpportunitiesArgs(args) ==
    /\ op = "none"
    /\ op' = "list_opportunities"
    /\ req' = args
    /\ IF RaisesValueError(args.start) \/ RaisesValueError(args.length) \/ ~store_up
       THEN resp' = FailedToLoad
       ELSE LET total == Len(Matching(Empty))
            IN  \E sorted \in OrderByResults(Matching(Empty), "posted_date", "DESC") :
                    resp' = [status |-> 200,
                             body |-> [data |-> LimitOffset(sorted,
                                                    IntArg(args.length, 25),
                                                    IntArg(args.start, 0)),
                                       recordsTotal |-> total,
                                       recordsFiltered |-> total]]
    /\ UNCHANGED <<store, store_up, threads, db>>

\* None (left out), '2', ' 2 ', '-1', '+3', '1_0', '0', 'abc', '', '2.5', '1e1'
ArgTexts ==
    {None, <<50>>, <<32, 50, 32>>, <<45, 49>>, <<43, 51>>, <<49, 95, 48>>,
     <<48>>, <<97, 98, 99>>, Empty, <<50, 46, 53>>, <<49, 101, 49>>}

\* None, '1', '2', 'x'
LengthTexts == {None, <<49>>, <<50>>, <<120>>}

PageArgs == [page : ArgTexts, per_page : LengthTexts]
WindowArgs == [start : ArgTexts, length : LengthTexts]

NextArgs ==
    \/ \E args \in PageArgs : GetOpportunitiesArgs(args)
    \/ \E args \in PageArgs : ApiOpportunitiesArgs(args)
    \/ \E args \in WindowArgs : ListOpportunitiesArgs(args)
    \/ Respond

SpecArgs == Init /\ [][NextArgs]_vars

----------------------------------------------------------------------------
(* Unparseable numeric parameters: C21 *)

\* a numeric argument of the current request is present and is no integer
Unparseable ==
    IF op = "list_opportunities"
    THEN RaisesValueError(req.start) \/ RaisesValueError(req.length)
    ELSE RaisesValueError(req.page) \/ RaisesValueError(req.per_page)

C21_App == (op = "get_opportunities" /\ store_up /\ Unparseable) => Succeeded
C21_Render == (op = "api_opportunities" /\ Unparseable) => Succeeded
C21_Pushdown == (op = "list_opportunities" /\ store_up /\ Unparseable) => Succeeded

\* every argument that is present reads as an integer: the listing is
\* answered unless per_page is 0
C21_ParseableAnswered ==
    (ListOp /\ Readable /\ ~Unparseable /\ (store_up \/ op = "api_opportunities")) =>
        (Succeeded \/ (InMemoryOp /\ req.per_page # None /\ ParseInt(req.per_page) = 0))

\* C21: when page, per_page, start or length does not read as an integer the
\* listing does not fail: it answers a successful page with a default or
\* clamped value in its place.
C21_InvalidParameterDefaulted == C21_App /\ C21_Render /\ C21_Pushdown

----------------------------------------------------------------------------
(* Every handler of the core on stores whose records lack fields           *)

\* a record with no field but its id ('F'), one whose fields are all empty
\* ('G'), and one with a deadline, a set-aside, a NAICS code and a flag ('E')
Bare == [notice_id |-> <<70>>]

Blank ==
    [notice_id |-> <<71>>, title |-> Empty, description |-> Empty,
     full_parent_path_name |-> Empty, naics_code |-> Empty, active |-> Empty,
     posted_date |-> Empty, response_deadline |-> Empty,
     type_of_set_aside_description |-> Empty]

Whole ==
    With(With(With(With(With(EvalBase, "response_deadline", DeadlineNaive),
        "type_of_set_aside_description", SetAsideVeteranSmall),
        "naics_code", Naics54), "active", Yes), "posted_date", DeadlineNaive)

CorePool == {RecA, RecD, Bare, Blank, Whole}

CoreStores ==
    {s \in UNION {[1..n -> CorePool] : n \in 0..MaxRecords} : UniqueIds(s)}

\* the ids of the pool and 'Z', which no record carries
CoreIds == {r.notice_id : r \in CorePool} \cup {<<90>>}

InitCore ==
    /\ store \in CoreStores
    /\ store_up \in BOOLEAN
    /\ op = "none"
    /\ req = <<>>
    /\ resp = NoResponse
    /\ threads = <<>>
    /\ db = <<>>

NextCore ==
    \/ \E q \in Queries : GetOpportunities(q)
    \/ \E q \in Queries : ApiOpportunities(q)
    \/ \E r \in ListRequests : ListOpportunities(r)
    \/ \E id \in CoreIds : GetOpportunity(id)
    \/ \E id \in CoreIds : ApiOpportunity(id)
    \/ \E id \in CoreIds, now \in Nows : EvaluateOpportunity(id, now)
    \/ \E id \in CoreIds, now \in Nows : ApiEvaluateOpportunity(id, now)
    \/ \E id \in CoreIds : GetDeliverables(id)
    \/ \E id \in CoreIds : GetProposalRequirements(id)
    \/ \E now \in Nows : GetStats(now)
    \/ \E now \in Nows : ApiStats(now)
    \/ Respond

SpecCore == InitCore /\ [][NextCore]_vars

----------------------------------------------------------------------------
(* The store is only read: C23 *)

\* C23: the listing (both in-memory variants and the pushdown), the
\* evaluation, the two extractions, the single lookup and the statistics
\* leave the store as it was: the same records with the same fields in the
\* same order, after every step of every sequence of these operations.
C23_StoreUnchanged == [][store' = store]_vars

\* a listing of the whole store was answered with its records in another
\* order than the store holds them
C23_Witness ==
    /\ op = "get_opportunities" /\ Succeeded /\ store_up
    /\ Len(Rows) = Len(store) /\ Len(store) >= 2
    /\ IdSeq(Rows) # IdSeq(store)

----------------------------------------------------------------------------
(* Records with missing or empty fields: C24 *)

FillableFields ==
    {"title", "description", "full_parent_path_name", "naics_code", "active",
     "posted_date", "response_deadline", "type_of_set_aside_description"}

\* the record with the empty text in the place of every absent field
Filled(rec) ==
    [f \in DOMAIN rec \cup FillableFields |-> Get(rec, f, Empty)]

FilledAll(records) == [i \in 1..Len(records) |-> Filled(records[i])]

LacksField(rec) == \E f \in FillableFields : Get(rec, f, Empty) = Empty

\* no answer of a handler that could read the store is a failure, but for
\* per_page = 0
C24_NeverFails ==
    (op # "none" /\ (store_up \/ op \in {"api_opportunities"} \/ RenderOp)) =>
        (resp.status # 500 \/ (InMemoryOp /\ req.per_page = 0))

\* the listing is the one of the store with the absent fields filled in
C24_List ==
    (InMemoryOp /\ Succeeded) =>
        LET filled == QueryOpportunities(FilledAll(Records), req)
        IN  /\ IdSeq(Rows) = IdSeq(filled.body.opportunities)
            /\ resp.body.pagination = filled.body.pagination

\* the recommendations of an evaluation are those of the record with the
\* absent fields filled in
C24_Evaluate ==
    Evaluated =>
        resp.body.recommendations =
            IF op = "evaluate_opportunity"
            THEN generate_evaluation_recommendations(Filled(Opportunity), req.now)
            ELSE render_generate_evaluation_recommendations(Filled(Opportunity),
                                                            req.now)

\* the counts of the statistics take every record in
C24_StatsCounts ==
    StatsAnswered =>
        LET filled == Stats(FilledAll(Looked), req.now)
        IN  /\ resp.body.total_opportunities = Len(Looked)
            /\ resp.body.active_opportunities = filled.active_opportunities
            /\ resp.body.recent_opportunities = filled.recent_opportunities

\* the frequency tables of the statistics are those of the store with the
\* absent fields filled in
C24_StatsTables ==
    StatsAnswered =>
        LET filled == Stats(FilledAll(Looked), req.now)
        IN  /\ resp.body.top_agencies = filled.top_agencies
            /\ resp.body.top_naics = filled.top_naics

\* without filter, every record of the store is on the page that holds them
\* all, the ones that lack fields too
C24_AllReturned ==
    (InMemoryOp /\ Succeeded /\ WholeWindow /\ req.search = Empty
        /\ req.agency = Empty /\ req.naics = Empty /\ req.active = Empty) =>
        Ids(Rows) = Ids(Records)

\* C24: a record with missing or empty fields (title, description, agency,
\* naics_code, active, dates, set-aside) makes no listing, evaluation or
\* statistics fail; the answer is the one obtained with the empty text in
\* the place of every absent field, and the other records are processed and
\* returned all the same.
C24_MissingFieldsTolerated ==
    /\ C24_NeverFails /\ C24_List /\ C24_Evaluate
    /\ C24_StatsCounts /\ C24_StatsTables /\ C24_AllReturned

----------------------------------------------------------------------------
(* Concurrent requests: app.run(threaded=True) serves each request in a    *)
(* thread of its own; a thread runs its handler statement by statement     *)
(* on its local variables                                                  *)

MaxThreads == 2

Threads == 1..MaxThreads

Idle ==
    [pc |-> "idle", handler |-> "none", q |-> <<>>, opportunities |-> <<>>,
     filtered_opportunities |-> <<>>, opportunity |-> <<>>, result |-> NoResponse]

\* the thread t takes the step that leaves its locals as in `after`
Step(t, after) ==
    /\ threads' = [threads EXCEPT ![t] = after]
    /\ UNCHANGED <<store, store_up, op, req, resp, db>>

\* get_opportunities: the request arguments
ListBegin(t, q) ==
    /\ threads[t].pc = "idle"
    /\ Step(t, [Idle EXCEPT !.pc = "read", !.handler = "get_opportunities",
                            !.q = q])

\* opportunities = db_manager.get_all_opportunities()
ThreadRead(t) ==
    /\ threads[t].pc = "read"
    /\ Step(t, IF store_up
               THEN [threads[t] EXCEPT !.pc = "filter", !.opportunities = store]
               ELSE [threads[t] EXCEPT !.pc = "done",
                        !.result = ErrorResponse("database unavailable")])

\* mutant: filtered_opportunities is one list shared by the requests
ThreadFilterShared(t) ==
    /\ threads[t].pc = "filter"
    /\ LET others == {u \in Threads \ {t} : threads[u].pc \in {"sort", "paginate"}}
           shared == IF others = {} THEN <<>>
                     ELSE threads[CHOOSE u \in others : TRUE].filtered_opportunities
       IN  Step(t, [threads[t] EXCEPT !.pc = "sort",
                       !.filtered_opportunities =
                           shared \o FilterOpportunities(threads[t].opportunities,
                                                         threads[t].q)])

\* filtered_opportunities = []; the filter loop
ThreadFilter(t) ==
    /\ threads[t].pc = "filter"
    /\ Step(t, [threads[t] EXCEPT !.pc = "sort",
                   !.filtered_opportunities =
                       FilterOpportunities(threads[t].opportunities, threads[t].q)])

\* filtered_opportunities.sort(...)
ThreadSort(t) ==
    /\ threads[t].pc = "sort"
    /\ Step(t, [threads[t] EXCEPT !.pc = "paginate",
                   !.filtered_opportunities =
                       SortOpportunities(threads[t].filtered_opportunities,
                                         threads[t].q.sort_by,
                                         threads[t].q.sort_order)])

\* pagination and jsonify
ThreadPaginate(t) ==
    /\ threads[t].pc = "paginate"
    /\ Step(t, [threads[t] EXCEPT !.pc = "done",
                   !.result = Paginate(threads[t].filtered_opportunities,
                                       threads[t].q.page, threads[t].q.per_page)])

\* get_deliverables / get_proposal_requirements: the notice_id of the route
ExtractBegin(t, handler, notice_id) ==
    /\ threads[t].pc = "idle"
    /\ Step(t, [Idle EXCEPT !.pc = "lookup", !.handler = handler,
                            !.q = [notice_id |-> notice_id]])

\* opportunity = db_manager.get_opportunity(notice_id)
ThreadLookup(t) ==
    /\ threads[t].pc = "lookup"
    /\ Step(t, IF ~store_up
               THEN [threads[t] EXCEPT !.pc = "done",
                        !.result = ErrorResponse("database unavailable")]
               ELSE IF Found(store, threads[t].q.notice_id) = <<>>
               THEN [threads[t] EXCEPT !.pc = "done", !.result = NotFound]
               ELSE [threads[t] EXCEPT !.pc = "extract",
                        !.opportunity = Found(store, threads[t].q.notice_id)[1]])

\* the dict with the extracted contexts, and jsonify
ThreadExtract(t) ==
    /\ threads[t].pc = "extract"
    /\ Step(t, [threads[t] EXCEPT !.pc = "done",
                   !.result =
                       [status |-> 200,
                        body |-> IF threads[t].handler = "get_deliverables"
                                 THEN Deliverables(threads[t].opportunity)
                                 ELSE ProposalRequirements(threads[t].opportunity)]])

\* the response is sent and the thread ends
ThreadReturn(t) ==
    /\ threads[t].pc = "done"
    /\ Step(t, Idle)

\* a record whose description is 'must deliver a report'
KeywordRec == With(EvalBase, "description", <<109, 117, 115, 116, 32, 100, 101, 108, 105, 118, 101, 114, 32, 97, 32, 114, 101, 112, 111, 114, 116>>)

ThreadStores == {<<>>, <<RecA, RecB, RecD>>, <<RecD, KeywordRec, RecA>>}

\* the default listing, a search sorted by title, page 2 of pages of one row
ThreadQueries ==
    {DefaultQuery,
     [DefaultQuery EXCEPT !.search = <<97>>, !.sort_by = "title",
                          !.sort_order = "asc"],
     [DefaultQuery EXCEPT !.page = 2, !.per_page = 1]}

ExtractHandlers == {"get_deliverables", "get_proposal_requirements"}

InitThreads ==
    /\ store \in ThreadStores
    /\ store_up \in BOOLEAN
    /\ op = "none"
    /\ req = <<>>
    /\ resp = NoResponse
    /\ threads = [t \in Threads |-> Idle]
    /\ db = <<>>

NextThreads ==
    \E t \in Threads :
        \/ \E q \in ThreadQueries : ListBegin(t, q)
        \/ ThreadRead(t)
        \/ ThreadFilter(t)
        \/ ThreadSort(t)
        \/ ThreadPaginate(t)
        \/ \E handler \in ExtractHandlers : ExtractBegin(t, handler, EvalId)
        \/ ThreadLookup(t)
        \/ ThreadExtract(t)
        \/ ThreadReturn(t)

SpecThreads == InitThreads /\ [][NextThreads]_vars

----------------------------------------------------------------------------
(* Stateless core under concurrency: C28 *)

\* the answer of the handler to the request of thread t, run alone
Alone(t) ==
    IF ~store_up THEN ErrorResponse("database unavailable")
    ELSE IF threads[t].handler = "get_opportunities"
    THEN QueryOpportunities(store, threads[t].q)
    ELSE IF Found(store, threads[t].q.notice_id) = <<>> THEN NotFound
    ELSE [status |-> 200,
          body |-> IF threads[t].handler = "get_deliverables"
                   THEN Deliverables(Found(store, threads[t].q.notice_id)[1])
                   ELSE ProposalRequirements(Found(store, threads[t].q.notice_id)[1])]

Done(t) == threads[t].pc = "done"

C28_AsAlone == \A t \in Threads : Done(t) => threads[t].result = Alone(t)

C28_EqualParameters ==
    \A t, u \in Threads :
        (Done(t) /\ Done(u) /\ threads[t].handler = threads[u].handler
            /\ threads[t].q = threads[u].q) =>
            threads[t].result = threads[u].result

\* C28: whatever the interleaving of the steps of concurrent listings and
\* extractions on a store that does not change, each request is answered as
\* it would be were it the only one, and two requests with equal parameters
\* get equal answers.
C28_Stateless == C28_AsAlone /\ C28_EqualParameters

\* a listing with rows is answered while another listing, with other
\* parameters, is between its filter and its pagination
C28_Witness ==
    \E t, u \in Threads :
        /\ t # u /\ Done(t) /\ threads[t].handler = "get_opportunities"
        /\ threads[t].result.status = 200
        /\ Len(threads[t].result.body.opportunities) > 0
        /\ threads[u].pc \in {"sort", "paginate"}
        /\ threads[u].q # threads[t].q
        /\ Len(threads[u].filtered_opportunities) > 0

----------------------------------------------------------------------------
(* Registration: register_user (public/server.py) on sqlite.  Each request *)
(* has a connection of its own (before_request); its INSERTs are pending   *)
(* in the connection's transaction until commit(), and close() in          *)
(* teardown_request drops what is pending.  One connection at a time       *)
(* holds the write lock of the database file.                              *)

\* the rows a connection has inserted and not committed
NoRows ==
    [users |-> <<>>, companies |-> <<>>, user_companies |-> <<>>,
     user_sessions |-> <<>>]

\* init_database: the four tables, empty, and nobody writing
EmptyDatabase ==
    [users |-> <<>>, companies |-> <<>>, user_companies |-> <<>>,
     user_sessions |-> <<>>, writer |-> 0]

RegIdle ==
    [pc |-> "idle", data |-> <<>>, user_id |-> 0, company_id |-> 0,
     pending |-> NoRows, result |-> NoResponse]

\* the fields of the request body the model follows
required_fields == {"email", "companyName"}

Emails == {<<97>>, <<98>>}                  \* 'a', 'b'
CompanyNames == {<<67>>}                    \* 'C'
DunsNumbers == {None, <<49>>}               \* left out, '1'

RegData ==
    [email : Emails, companyName : CompanyNames, dunsNumber : DunsNumbers]
    \cup {[email |-> Empty, companyName |-> <<67>>, dunsNumber |-> None],
          [email |-> <<97>>, companyName |-> Empty, dunsNumber |-> None]}

\* the thread t takes a step on its locals and on the database
RegStep(t, after, database) ==
    /\ threads' = [threads EXCEPT ![t] = after]
    /\ db' = database
    /\ UNCHANGED <<store, store_up, op, req, resp>>

Answer(status) == [status |-> status, body |-> <<>>]

\* before_request, request.get_json() and the required fields
RegisterBegin(t, data) ==
    /\ threads[t].pc = "idle"
    /\ RegStep(t, IF \E field \in required_fields : ~Truthy(data[field])
                  THEN [RegIdle EXCEPT !.pc = "done", !.data = data,
                                       !.result = Answer(400)]
                  ELSE [RegIdle EXCEPT !.pc = "select", !.data = data],
               db)

\* SELECT id FROM users WHERE email = ?: the committed rows
RegisterSelect(t) ==
    /\ threads[t].pc = "select"
    /\ RegStep(t, IF \E i \in 1..Len(db.users) :
                        db.users[i].email = threads[t].data.email
                  THEN [threads[t] EXCEPT !.pc = "done", !.result = Answer(409)]
                  ELSE [threads[t] EXCEPT !.pc = "insert_user"],
               db)

\* INSERT INTO users: takes the write lock; email is UNIQUE
RegisterInsertUser(t) ==
    /\ threads[t].pc = "insert_user"
    /\ db.writer \in {0, t}
    /\ RegStep(t, IF \E i \in 1..Len(db.users) :
                        db.users[i].email = threads[t].data.email
                  THEN [threads[t] EXCEPT !.pc = "done", !.result = Answer(500)]
                  ELSE [threads[t] EXCEPT !.pc = "insert_company",
                           !.user_id = Len(db.users) + 1,
                           !.pending.users =
                               Append(@, [email |-> threads[t].data.email])],
               [db EXCEPT !.writer = t])

\* INSERT INTO companies: duns_number is UNIQUE, NULLs apart
RegisterInsertCompany(t) ==
    /\ threads[t].pc = "insert_company"
    /\ RegStep(t, IF /\ threads[t].data.dunsNumber # None
                     /\ \E i \in 1..Len(db.companies) :
                           db.companies[i].duns_number = threads[t].data.dunsNumber
                  THEN [threads[t] EXCEPT !.pc = "done", !.result = Answer(500)]
                  ELSE [threads[t] EXCEPT !.pc = "insert_link",
                           !.company_id = Len(db.companies) + 1,
                           !.pending.companies =
                               Append(@, [created_by |-> threads[t].user_id,
                                          duns_number |-> threads[t].data.dunsNumber])],
               db)

\* INSERT INTO user_companies
RegisterInsertLink(t) ==
    /\ threads[t].pc = "insert_link"
    /\ RegStep(t, [threads[t] EXCEPT !.pc = "insert_session",
                      !.pending.user_companies =
                          Append(@, [user_id |-> threads[t].user_id,
                                     company_id |-> threads[t].company_id,
                                     role |-> "owner"])],
               db)

\* INSERT INTO user_sessions
RegisterInsertSession(t) ==
    /\ threads[t].pc = "insert_session"
    /\ RegStep(t, [threads[t] EXCEPT !.pc = "commit",
                      !.pending.user_sessions =
                          Append(@, [user_id |-> threads[t].user_id])],
               db)

\* the tables with the pending rows of a connection written to them
Committed(database, pending) ==
    [database EXCEPT !.users = @ \o pending.users,
                     !.companies = @ \o pending.companies,
                     !.user_companies = @ \o pending.user_companies,
                     !.user_sessions = @ \o pending.user_sessions,
                     !.writer = 0]

\* g.db.commit() and the 201 answer
RegisterCommit(t) ==
    /\ threads[t].pc = "commit"
    /\ RegStep(t, [threads[t] EXCEPT !.pc = "done", !.pending = NoRows,
                                     !.result = Answer(201)],
               Committed(db, threads[t].pending))

\* a statement raises (database is locked, disk I/O error, a token that is
\* already taken): except Exception answers 500
RegisterFail(t) ==
    /\ threads[t].pc \in {"select", "insert_user", "insert_company",
                          "insert_link", "insert_session", "commit"}
    /\ RegStep(t, [threads[t] EXCEPT !.pc = "done", !.result = Answer(500)], db)

\* mutant: closing the connection writes the pending rows
RegisterTeardownCommits(t) ==
    /\ threads[t].pc = "done"
    /\ RegStep(t, RegIdle,
               IF db.writer = t THEN Committed(db, threads[t].pending) ELSE db)

\* teardown_request: g.db.close() drops the pending rows and the lock
RegisterTeardown(t) ==
    /\ threads[t].pc = "done"
    /\ RegStep(t, RegIdle,
               IF db.writer = t THEN [db EXCEPT !.writer = 0] ELSE db)

InitRegister ==
    /\ store = <<>>
    /\ store_up = TRUE
    /\ op = "none"
    /\ req = <<>>
    /\ resp = NoResponse
    /\ threads = [t \in Threads |-> RegIdle]
    /\ db = EmptyDatabase

NextRegister ==
    \E t \in Threads :
        \/ \E data \in RegData : RegisterBegin(t, data)
        \/ RegisterSelect(t)
        \/ RegisterInsertUser(t)
        \/ RegisterInsertCompany(t)
        \/ RegisterInsertLink(t)
        \/ RegisterInsertSession(t)
        \/ RegisterCommit(t)
        \/ RegisterFail(t)
        \/ RegisterTeardown(t)

SpecRegister == InitRegister /\ [][NextRegister]_vars

----------------------------------------------------------------------------
(* Registration is all-or-nothing: C29 *)

\* the committed rows
Tables == <<db.users, db.companies, db.user_companies, db.user_sessions>>

\* the user with that id has a company, is its owner and has a session
Complete(user_id) ==
    /\ \E c \in 1..Len(db.companies) :
          /\ db.companies[c].created_by = user_id
          /\ \E l \in 1..Len(db.user_companies) :
                db.user_companies[l] =
                    [user_id |-> user_id, company_id |-> c, role |-> "owner"]
    /\ \E k \in 1..Len(db.user_sessions) : db.user_sessions[k].user_id = user_id

C29_Complete == \A i \in 1..Len(db.users) : Complete(i)

C29_UniqueEmail ==
    \A i, j \in 1..Len(db.users) : db.users[i].email = db.users[j].email => i = j

\* the tables change only in the step of a request that commits and answers
\* 201, and then by one row each
C29_OnlyByCommit ==
    Tables' # Tables =>
        \E t \in Threads :
            /\ threads[t].pc = "commit"
            /\ threads'[t].pc = "done" /\ threads'[t].result.status = 201
            /\ \A k \in 1..4 : Len(Tables'[k]) = Len(Tables[k]) + 1

\* C29: whatever the interleaving of register_user requests, every committed
\* user has its company, its owner link and its session committed with it,
\* no two committed users share an email, and only a request that answers
\* 201 changes the tables: one answered 400, 409 or 500, after some inserts
\* too, leaves users, companies, user_companies and user_sessions as they
\* were.
C29_AllOrNothing ==
    /\ [](C29_Complete /\ C29_UniqueEmail)
    /\ [][C29_OnlyByCommit]_vars

\* a user is committed, and a request for another email has failed after
\* its INSERT INTO users
C29_Witness ==
    /\ Len(db.users) >= 1
    /\ \E t \in Threads :
          /\ threads[t].pc = "done" /\ threads[t].result.status = 500
          /\ Len(threads[t].pending.users) = 1
          /\ \A i \in 1..Len(db.users) :
                db.users[i].email # threads[t].data.email

====
